---- MODULE Spec2Model ----
(***************************************************************************)
(* A model of intrack: the event-sourced issue store (append-only JSONL    *)
(* log and its in-memory projection), the terminal session and its event   *)
(* multiplexer, the page/focus input router and the external-editor       *)
(* hand-off of the main loop.                                              *)
(*                                                                         *)
(* The specifications share the module's variables; each one moves only    *)
(* its own group and leaves the others as Init set them:                   *)
(*   SpecStore  Issues::append_to_log step by step, and reloading the log  *)
(*   SpecLoad   Issues::from_jsonl_file line by line over a drawn file     *)
(*   SpecMux    Tui::start and next, and the background tasks              *)
(*   SpecStop   Tui::stop and next on a started Tui, and its task          *)
(*   SpecApp    App::run: the backend, the loop, the editor hand-off       *)
(*   SpecSlot   ExternalEditor: the slot of pending editor requests        *)
(*   SpecExit   Tui::enter and Tui::exit_raw_mode, command by command      *)
(*   SpecSuspend  the same with Tui::resume entering after an exit         *)
(*   SpecPanic  the panic hook of init/panic_hook.rs and restore_tui       *)
(*   SpecBackend  App::new_backend and kill_backend: a Tui of any          *)
(*              configuration, started, read from and dropped              *)
(*   SpecDefault  SpecApp started as App::new starts it: the table page     *)
(*              with the table in focus                                    *)
(*   SpecColumns  the columns as the text the editor is given, and back    *)
(*   SpecSort   the sort column under the sort keys and column edits       *)
(*   SpecBox    InputBoxState::handle_input, call by call                  *)
(***************************************************************************)
EXTENDS Integers, Sequences, FiniteSets, TLC

VARIABLES
    \* ---- the issue store (feat/issues/mod.rs)
    store,      \* Issues: [issues: id -> Issue, comments: id -> Seq(Comment)]
    logFile,    \* the event log file: a sequence of tokens, NL ends a line
    ap,         \* the append_to_log call in flight and its snapshot at entry
    nAppends,   \* append_to_log calls made so far
    nFailed,    \* append_to_log calls that returned an error so far
    \* ---- from_jsonl_file line by line (feat/issues/mod.rs)
    ld,         \* a from_jsonl_file call: the lines the file was built from, the result
    \* ---- the session's event multiplexer (feat/tui/wrapper.rs)
    tui,        \* Tui: [task: the run self.task joins, cancellation_token: the token held,
                \*       mouse, paste, alive: FALSE once the Tui was dropped,
                \*       focus: the terminal reports focus changes]
    task,       \* the spawned tasks, by run: [pc, aborted, tok, src, ev, first, res]
    token,      \* the cancellation tokens, by number: TRUE when cancelled
    chan,       \* the unbounded channel event_tx -> event_rx
    caller,     \* the thread that owns the Tui: [pc, counter]
    obs,        \* what has been observed of the channel so far
    \* ---- the application and its main loop (app.rs)
    term,       \* the terminal: [raw, alt]
    app,        \* App: tuistate (page, focus, table, thread), external_editor, should_quit
    run,        \* App::run: where it is, the Tui it owns, the event in hand
    \* ---- the pending-editor slot by itself (feat/external_editor/mod.rs)
    ed,         \* ExternalEditor: the entry held, and what became of every entry made
    \* ---- one Tui entering and leaving raw mode step by step (feat/tui/wrapper.rs)
    sess,       \* [pc, mouse, paste], the terminal's modes, the calls made and what they did
    \* ---- the process-wide panic hook (init/panic_hook.rs)
    ph,         \* [hook: the hooks installed, pc, trace: what the hook did in this panic,
                \*  log: what restore_tui gave in the panics before]
    \* ---- the widgets' states by themselves (feat/tui_issue_table/state.rs,
    \*      feat/tui_widget/input_box.rs)
    tbl,        \* IssueTableState: [columns, sort_by], the text in the editor, what came back
    box         \* InputBoxState: [text, cursor], the event of the last handle_input
                \* and what it returned

storeVars == <<store, logFile, ap, nAppends, nFailed>>
loadVars  == <<ld>>
muxVars   == <<tui, task, token, chan, caller, obs>>
appVars   == <<term, app, run>>
\* what the store's steps leave alone
widgetVars == <<tbl, box>>
notStore  == <<ld, muxVars, appVars, ed, sess, ph, widgetVars>>
\* what the multiplexer's steps leave alone
notMux    == <<storeVars, ld, appVars, ed, sess, ph, widgetVars>>
\* what the main loop's steps leave alone
notApp    == <<ap, nAppends, nFailed, ld, muxVars, ed, sess, ph, widgetVars>>
\* what the slot's steps leave alone
notSlot   == <<storeVars, ld, muxVars, appVars, sess, ph, widgetVars>>
\* what the steps of enter_raw_mode and exit_raw_mode leave alone
notExit   == <<storeVars, ld, muxVars, app, run, ed, ph, widgetVars>>
\* what the panic hook's steps leave alone
notPanic  == <<storeVars, ld, muxVars, app, run, ed, sess, widgetVars>>
\* what the steps of the table's columns leave alone
notTable  == <<storeVars, ld, muxVars, appVars, ed, sess, ph, box>>
\* what the steps of the input box leave alone
notBox    == <<storeVars, ld, muxVars, appVars, ed, sess, ph, tbl>>
vars == <<store, logFile, ap, nAppends, nFailed, ld, tui, task, token, chan, caller, obs,
          term, app, run, ed, sess, ph, tbl, box>>

(***************************************************************************)
(* Bounds of the model.                                                    *)
(***************************************************************************)
MaxAppends == 2
MaxLoadRecs == 2
MaxRuns == 2
MaxChan == 1
MaxEdits == 3
MaxExitCalls == 2
MaxEnters == 2
MaxPanics == 2
MaxCols == 2
MaxColEdits == 2
MaxText == 3
MaxRows == 2

(***************************************************************************)
(* Tui::new (feat/tui/wrapper.rs): a channel, a token, and a task that     *)
(* does nothing.  Run 0 is that task; run r >= 1 is the task of the r-th   *)
(* start(), and token t is the token made for run t.                       *)
(***************************************************************************)
Runs == 0..MaxRuns

\* A firing of the task's select!: an item of the input stream (Some(Ok(evt)),
\* Some(Err(_)) or None) or a timer.
ReaderItem(tag, type, kind) == [tag |-> tag, type |-> type, kind |-> kind]

\* src is the firing whose branch the task is in, ev the event that branch
\* sends, first the first event the task sent, res what the task returned
NoFiring == ReaderItem("idle", "none", "none")

TaskNone ==
    [pc |-> "none", aborted |-> FALSE, tok |-> 0, src |-> NoFiring, ev |-> "none",
     first |-> "none", res |-> "none"]

\* a task as tokio::spawn returns it, holding the token numbered tok
TaskSpawned(tok) == [TaskNone EXCEPT !.pc = "spawned", !.tok = tok]

\* Tui::new: mouse and paste are false.  Nothing in the source asks the
\* terminal to report focus changes.
DefaultConfig == [mouse |-> FALSE, paste |-> FALSE, focus |-> FALSE]

\* nothing observed yet
ObsNone ==
    [stopped |-> FALSE, sentAfterStop |-> FALSE, staleDelivered |-> FALSE,
     readAfterKill |-> FALSE, gotNone |-> FALSE]

Tui_new ==
    /\ tui = [task |-> 0, cancellation_token |-> 0, mouse |-> FALSE, paste |-> FALSE,
              alive |-> TRUE, focus |-> FALSE]
    /\ task = [r \in Runs |-> IF r = 0 THEN TaskSpawned(0) ELSE TaskNone]
    /\ token = [t \in Runs |-> FALSE]
    /\ chan = <<>>
    /\ caller = [pc |-> "idle", counter |-> 0]
    /\ obs = ObsNone

(***************************************************************************)
(* App::new (app.rs) with the TuiState it is given, before App::run: the   *)
(* terminal is as the shell left it and no Tui exists.                     *)
(***************************************************************************)
Pages == {"IssueTable", "IssueThread"}
Focuses == {"IssueTable", "IssueTableFilter", "IssueThread"}

\* TableState::selected() == None
NoIndex == -1

NoEntry == [kind |-> "none", issue_id |-> 0]

\* enum Column: a known column, or Custom with its key
Column(name) == [name |-> name, key |-> <<>>]
Custom(key) == [name |-> "Custom", key |-> key]

\* IssueTableState::default(): the columns shown
DefaultColumns == << Column("Id"), Column("Title"), Column("Created"), Column("Status"),
                     Column("Priority"), Column("CreatedBy") >>

App_new(page, focus) ==
    [page |-> page, focus |-> focus, should_quit |-> FALSE, entry |-> NoEntry,
     columns |-> DefaultColumns, selected |-> NoIndex, filter_focused |-> FALSE,
     thread |-> [issue_id |-> 0, selected |-> NoIndex]]

NoAppEvent == [kind |-> "none", code |-> "none", key_kind |-> "none"]
NoResponse == [tag |-> "none", text |-> <<>>]
NoRoute == [page |-> "none", focus |-> "none", prop |-> "none"]

RunStart ==
    [pc |-> "nb_new", tui |-> "none", ev |-> NoAppEvent, resp |-> NoResponse,
     cb |-> NoEntry, after |-> "loop", hs |-> <<>>, routed |-> NoRoute,
     cause |-> "none", quota |-> MaxAppends]

AppOff ==
    /\ term = [raw |-> FALSE, alt |-> FALSE]
    /\ app = App_new("IssueTable", "IssueTable")
    /\ run = RunStart

\* ExternalEditor::default(): no entry, and no entry made yet.  Entries are
\* numbered in the order edit() makes them; 0 is None.
ExternalEditor_default ==
    [entry |-> 0, made |-> 0, kinds |-> <<>>, op |-> "none", ret |-> 0, taken |-> 0,
     returned |-> {}, failed |-> {}, invoked |-> <<>>]

NoOps == [flush |-> 0, paste |-> 0, mouse |-> 0, leave |-> 0, raw |-> 0]

\* The modes of the terminal besides raw mode and the alternate screen, as
\* the shell leaves them: no mouse capture, no bracketed paste, the cursor
\* shown.
ModesOff == [mouse |-> FALSE, paste |-> FALSE, hidden |-> FALSE]

\* A Tui as Tui::new makes it (mouse and paste off), nothing called on it.
\* enabled is what the enter_raw_mode call in flight, or the last one, has
\* switched on; calls is the calls that returned, in order; snaps is the
\* terminal as each enter_raw_mode that returned Ok left it.
SessOff ==
    [pc |-> "new", mouse |-> FALSE, paste |-> FALSE, entered |-> FALSE,
     results |-> <<>>, ops |-> NoOps, modes |-> ModesOff,
     enabled |-> [mouse |-> FALSE, paste |-> FALSE], enters |-> 0,
     calls |-> <<>>, snaps |-> <<>>]

\* The hook the process starts with (the one of std), and no panic yet.
PanicHookOff ==
    [hook |-> <<"original">>, pc |-> "main", trace |-> <<>>, restore |-> "none",
     panics |-> 0, stdout_tty |-> TRUE, log |-> <<>>]

\* IssueTableState::default(): the columns shown and the column sorted by;
\* no text is in the editor and none has come back.
IssueTableState_default ==
    [pc |-> "table", columns |-> DefaultColumns, sort_by |-> Column("Created"),
     text |-> <<>>, back |-> <<>>, edits |-> 0]

\* InputBoxState::default(): no text, the cursor at 0; handle_input has not
\* been called.
InputBoxState_default ==
    [text |-> <<>>, cursor |-> 0, last |-> "none", ev |-> NoAppEvent]

WidgetsOff ==
    /\ tbl = IssueTableState_default
    /\ box = InputBoxState_default

AuxOff ==
    /\ ed = ExternalEditor_default
    /\ sess = SessOff
    /\ ph = PanicHookOff
    /\ WidgetsOff

(***************************************************************************)
(* Issue, Comment, IssueEvent (feat/issue/mod.rs, comment.rs, status.rs,   *)
(* priority.rs, feat/issues/event.rs).  Enums are their discriminants.     *)
(* The fields created, created_by and custom are plain data that no        *)
(* operation of the store reads; they are left out.                        *)
(***************************************************************************)
IssueIds == {1, 7}

StatusOpen == 0
StatusClosed == 1
Statuses == {StatusOpen, StatusClosed}

PriorityLow == 1
PriorityHigh == 3
Priorities == {PriorityLow, PriorityHigh}

NL == "\n"
SP == " "
QUOTE == "\""

\* Strings are sequences of characters; a comment may hold a line break.
Titles == { <<"t">> }
Contents == { <<"c">>, <<"c", NL>> }

Issue(id, title, status, priority) ==
    [id |-> id, title |-> title, status |-> status, priority |-> priority]

Comment(parent, content) == [parent_issue |-> parent, content |-> content]

IssueCreated(issue) == [type |-> "IssueCreated", issue |-> issue]
CommentAdded(comment) == [type |-> "CommentAdded", comment |-> comment]
StatusChanged(id, status) ==
    [type |-> "StatusChanged", issue_id |-> id, status |-> status]
PriorityChanged(id, priority) ==
    [type |-> "PriorityChanged", issue_id |-> id, priority |-> priority]

\* A new issue is created Open (Issue::from_str).
AllIssues == { Issue(i, t, s, p) : i \in IssueIds, t \in Titles,
                                   s \in {StatusOpen}, p \in Priorities }
AllComments == { Comment(i, c) : i \in IssueIds, c \in Contents }

IssueEvents ==
    { IssueCreated(i) : i \in AllIssues }
    \cup { CommentAdded(c) : c \in AllComments }
    \cup { StatusChanged(i, s) : i \in IssueIds, s \in Statuses }
    \cup { PriorityChanged(i, p) : i \in IssueIds, p \in Priorities }

(***************************************************************************)
(* The projection.  A HashMap is a function on the set of its keys.        *)
(***************************************************************************)
EmptyMap == [k \in {} |-> 0]

Insert(m, k, v) == [x \in DOMAIN m \cup {k} |-> IF x = k THEN v ELSE m[x]]

Issues_default == [issues |-> EmptyMap, comments |-> EmptyMap]

\* Mutant: IssueCreated on an id the store has keeps the priority stored.
apply_event_CreateMerges(s, event) ==
    CASE event.type = "IssueCreated" ->
           LET id == event.issue.id
               merged == IF id \in DOMAIN s.issues
                         THEN [event.issue EXCEPT !.priority = s.issues[id].priority]
                         ELSE event.issue
           IN [s EXCEPT !.issues = Insert(s.issues, id, merged)]
      [] event.type = "CommentAdded" ->
           LET p == event.comment.parent_issue
               old == IF p \in DOMAIN s.comments THEN s.comments[p] ELSE <<>>
           IN [s EXCEPT !.comments = Insert(s.comments, p, Append(old, event.comment))]
      [] event.type = "StatusChanged" ->
           IF event.issue_id \in DOMAIN s.issues
           THEN [s EXCEPT !.issues[event.issue_id].status = event.status]
           ELSE s
      [] event.type = "PriorityChanged" ->
           IF event.issue_id \in DOMAIN s.issues
           THEN [s EXCEPT !.issues[event.issue_id].priority = event.priority]
           ELSE s

\* Mutant: CommentAdded puts the comment at the head of the list.
apply_event_CommentPrepends(s, event) ==
    CASE event.type = "IssueCreated" ->
           [s EXCEPT !.issues = Insert(s.issues, event.issue.id, event.issue)]
      [] event.type = "CommentAdded" ->
           LET p == event.comment.parent_issue
               old == IF p \in DOMAIN s.comments THEN s.comments[p] ELSE <<>>
           IN [s EXCEPT !.comments = Insert(s.comments, p, <<event.comment>> \o old)]
      [] event.type = "StatusChanged" ->
           IF event.issue_id \in DOMAIN s.issues
           THEN [s EXCEPT !.issues[event.issue_id].status = event.status]
           ELSE s
      [] event.type = "PriorityChanged" ->
           IF event.issue_id \in DOMAIN s.issues
           THEN [s EXCEPT !.issues[event.issue_id].priority = event.priority]
           ELSE s

\* Mutant: StatusChanged and PriorityChanged on an id the store does not
\* have make an issue for it (entry().or_insert_with instead of and_modify).
apply_event_ChangeCreates(s, event) ==
    LET blank(id) == [id |-> id, title |-> <<>>, status |-> StatusOpen,
                      priority |-> PriorityLow]
        at(id) == IF id \in DOMAIN s.issues THEN s.issues[id] ELSE blank(id)
    IN
    CASE event.type = "IssueCreated" ->
           [s EXCEPT !.issues = Insert(s.issues, event.issue.id, event.issue)]
      [] event.type = "CommentAdded" ->
           LET p == event.comment.parent_issue
               old == IF p \in DOMAIN s.comments THEN s.comments[p] ELSE <<>>
           IN [s EXCEPT !.comments = Insert(s.comments, p, Append(old, event.comment))]
      [] event.type = "StatusChanged" ->
           [s EXCEPT !.issues = Insert(s.issues, event.issue_id,
                                       [at(event.issue_id) EXCEPT !.status = event.status])]
      [] event.type = "PriorityChanged" ->
           [s EXCEPT !.issues = Insert(s.issues, event.issue_id,
                                       [at(event.issue_id) EXCEPT !.priority = event.priority])]

apply_event(s, event) ==
    CASE event.type = "IssueCreated" ->
           [s EXCEPT !.issues = Insert(s.issues, event.issue.id, event.issue)]
      [] event.type = "CommentAdded" ->
           LET p == event.comment.parent_issue
               old == IF p \in DOMAIN s.comments THEN s.comments[p] ELSE <<>>
           IN [s EXCEPT !.comments = Insert(s.comments, p, Append(old, event.comment))]
      [] event.type = "StatusChanged" ->
           IF event.issue_id \in DOMAIN s.issues
           THEN [s EXCEPT !.issues[event.issue_id].status = event.status]
           ELSE s
      [] event.type = "PriorityChanged" ->
           IF event.issue_id \in DOMAIN s.issues
           THEN [s EXCEPT !.issues[event.issue_id].priority = event.priority]
           ELSE s

RECURSIVE FoldEvents(_, _)
FoldEvents(s, events) ==
    IF events = <<>> THEN s
    ELSE FoldEvents(apply_event(s, Head(events)), Tail(events))

from_events(events) == FoldEvents(Issues_default, events)

(***************************************************************************)
(* serde_json::to_string of an IssueEvent, as a sequence of tokens.  The   *)
(* enum is externally tagged; a unit variant of Status or Priority is      *)
(* written as its name (derive(Serialize)); a u64 is written in decimal;   *)
(* a string is written between quotes with a line break escaped, so the    *)
(* text of one record never holds a raw NL.                                *)
(***************************************************************************)
StatusName(s) == IF s = StatusOpen THEN "Open" ELSE "Closed"

PriorityNames == <<"Trivial", "Low", "Medium", "High", "Critical", "Blocker">>

PriorityName(p) == PriorityNames[p + 1]

EscapeChar(c) == IF c = NL THEN "\\n" ELSE c

json_string(str) == <<QUOTE>> \o [i \in 1..Len(str) |-> EscapeChar(str[i])] \o <<QUOTE>>

to_string(event) ==
    CASE event.type = "IssueCreated" ->
           <<"{", "IssueCreated", ToString(event.issue.id)>>
           \o json_string(event.issue.title)
           \o <<StatusName(event.issue.status), PriorityName(event.issue.priority), "}">>
      [] event.type = "CommentAdded" ->
           <<"{", "CommentAdded", ToString(event.comment.parent_issue)>>
           \o json_string(event.comment.content) \o <<"}">>
      [] event.type = "StatusChanged" ->
           <<"{", "StatusChanged", ToString(event.issue_id), StatusName(event.status), "}">>
      [] event.type = "PriorityChanged" ->
           <<"{", "PriorityChanged", ToString(event.issue_id), PriorityName(event.priority), "}">>

(***************************************************************************)
(* serde_json::from_str::<IssueEvent>.  Status and Priority are read by    *)
(* their own Deserialize: the text is lower-cased and matched against the  *)
(* names and aliases of FromStr.  Every result is [ok, val].               *)
(***************************************************************************)
Err == [ok |-> FALSE, val |-> 0]
Ok(v) == [ok |-> TRUE, val |-> v]

to_lowercase(tok) ==
    CASE tok = "Open" -> "open"       [] tok = "Closed" -> "closed"
      [] tok = "Trivial" -> "trivial" [] tok = "Low" -> "low"
      [] tok = "Medium" -> "medium"   [] tok = "High" -> "high"
      [] tok = "Critical" -> "critical" [] tok = "Blocker" -> "blocker"
      [] OTHER -> tok

\* Mutant: the text is matched as written, without to_lowercase.
Status_from_str_CaseSensitive(tok) ==
    IF tok \in {"open", "active", "pending"} THEN Ok(StatusOpen)
    ELSE IF tok \in {"closed", "done", "finished"} THEN Ok(StatusClosed)
    ELSE Err

Status_from_str(tok) ==
    LET l == to_lowercase(tok) IN
    IF l \in {"open", "active", "pending"} THEN Ok(StatusOpen)
    ELSE IF l \in {"closed", "done", "finished"} THEN Ok(StatusClosed)
    ELSE Err

Priority_from_str(tok) ==
    LET l == to_lowercase(tok) IN
    IF l \in {"trivial", "t", "typo"} THEN Ok(0)
    ELSE IF l \in {"low", "l"} THEN Ok(1)
    ELSE IF l \in {"medium", "m"} THEN Ok(2)
    ELSE IF l \in {"high", "h"} THEN Ok(3)
    ELSE IF l \in {"critical", "c"} THEN Ok(4)
    ELSE IF l \in {"blocker", "b"} THEN Ok(5)
    ELSE Err

\* IssueId is u64.  U64Max stands for u64::MAX, scaled to the ids of the
\* model: the largest id a record can hold, and the last one before id + 1
\* overflows.
U64Max == 9

\* The ids a decimal token of the model can denote.
DecimalIds == 0..U64Max

parse_u64(tok) ==
    IF \E n \in DecimalIds : ToString(n) = tok
    THEN Ok(CHOOSE n \in DecimalIds : ToString(n) = tok)
    ELSE Err

CharTokens == {"c", "t", "\\n"}

UnescapeChar(tok) == IF tok = "\\n" THEN NL ELSE tok

\* toks is exactly one JSON string: quote, characters, quote.
parse_string(toks) ==
    IF /\ Len(toks) >= 2
       /\ toks[1] = QUOTE
       /\ toks[Len(toks)] = QUOTE
       /\ \A i \in 2..(Len(toks) - 1) : toks[i] \in CharTokens
    THEN Ok([i \in 1..(Len(toks) - 2) |-> UnescapeChar(toks[i + 1])])
    ELSE Err

from_str(line) ==
    IF Len(line) < 3 \/ line[1] # "{" \/ line[Len(line)] # "}" THEN Err
    ELSE
    LET tag  == line[2]
        body == SubSeq(line, 3, Len(line) - 1)
        n    == Len(body)
    IN
    CASE tag = "IssueCreated" ->
           IF n < 5 THEN Err
           ELSE LET id == parse_u64(body[1])
                    title == parse_string(SubSeq(body, 2, n - 2))
                    status == Status_from_str(body[n - 1])
                    priority == Priority_from_str(body[n])
                IN IF id.ok /\ title.ok /\ status.ok /\ priority.ok
                   THEN Ok(IssueCreated(Issue(id.val, title.val, status.val, priority.val)))
                   ELSE Err
      [] tag = "CommentAdded" ->
           IF n < 3 THEN Err
           ELSE LET id == parse_u64(body[1])
                    content == parse_string(Tail(body))
                IN IF id.ok /\ content.ok
                   THEN Ok(CommentAdded(Comment(id.val, content.val)))
                   ELSE Err
      [] tag = "StatusChanged" ->
           IF n # 2 THEN Err
           ELSE LET id == parse_u64(body[1])
                    status == Status_from_str(body[2])
                IN IF id.ok /\ status.ok THEN Ok(StatusChanged(id.val, status.val))
                   ELSE Err
      [] tag = "PriorityChanged" ->
           IF n # 2 THEN Err
           ELSE LET id == parse_u64(body[1])
                    priority == Priority_from_str(body[2])
                IN IF id.ok /\ priority.ok THEN Ok(PriorityChanged(id.val, priority.val))
                   ELSE Err
      [] OTHER -> Err

(***************************************************************************)
(* str::lines and str::trim.                                               *)
(***************************************************************************)
FirstNL(f) == IF \E i \in 1..Len(f) : f[i] = NL
              THEN CHOOSE i \in 1..Len(f) : f[i] = NL /\ \A j \in 1..(i - 1) : f[j] # NL
              ELSE 0

RECURSIVE lines(_)
lines(f) ==
    IF f = <<>> THEN <<>>
    ELSE LET k == FirstNL(f) IN
         IF k = 0 THEN <<f>>
         ELSE <<SubSeq(f, 1, k - 1)>> \o lines(SubSeq(f, k + 1, Len(f)))

Whitespace == {SP, NL}

RECURSIVE trim_start(_)
trim_start(l) == IF l # <<>> /\ Head(l) \in Whitespace THEN trim_start(Tail(l)) ELSE l

RECURSIVE trim_end(_)
trim_end(l) == IF l # <<>> /\ l[Len(l)] \in Whitespace
               THEN trim_end(SubSeq(l, 1, Len(l) - 1)) ELSE l

\* Mutant: the line is decoded as read, without trim.
trim_Missing(l) == l

trim(l) == trim_end(trim_start(l))

(***************************************************************************)
(* Issues::from_jsonl_file: every line is trimmed, a blank one skipped,    *)
(* any other decoded; the first line that does not decode ends the load    *)
(* with its 1-based number and its content; the events are then folded.    *)
(***************************************************************************)
LoadOk(s) == [ok |-> TRUE, store |-> s, line |-> 0, content |-> <<>>]
\* Mutant: the position of the line is counted from 0.
LoadErr_ZeroBased(n, c) ==
    [ok |-> FALSE, store |-> Issues_default, line |-> n - 1, content |-> c]

LoadErr(n, c) == [ok |-> FALSE, store |-> Issues_default, line |-> n, content |-> c]

RECURSIVE ReadLines(_, _, _)
ReadLines(ls, idx, events) ==
    IF idx >= Len(ls) THEN LoadOk(from_events(events))
    ELSE LET line == trim(ls[idx + 1]) IN
         IF line = <<>> THEN ReadLines(ls, idx + 1, events)
         ELSE LET event == from_str(line) IN
              IF event.ok THEN ReadLines(ls, idx + 1, Append(events, event.val))
              ELSE LoadErr(idx + 1, line)

from_jsonl_file(f) == ReadLines(lines(f), 0, <<>>)

(***************************************************************************)
(* Issues::append_to_log, one action per step of the function.  ap holds   *)
(* the call in flight: where it is, its record, and the store and the file *)
(* as they were when it was called.  Every caller of append_to_log hands   *)
(* an error on with `?` up to App::run, which returns it: after a failed   *)
(* append the process ends (pc "failed"), and the next thing that happens  *)
(* to the log is the load of a new process.                                *)
(***************************************************************************)
ApIdle == [pc |-> "idle", event |-> StatusChanged(1, StatusOpen), json |-> <<>>,
           preStore |-> Issues_default, preFile |-> <<>>, result |-> "none",
           failedAt |-> "none"]

ApReturnErr(step) ==
    /\ ap' = [ap EXCEPT !.pc = "failed", !.result = "err", !.failedAt = step]
    /\ nFailed' = nFailed + 1

\* the call: the caller's record, and the state it is called in
AppendCall(event) ==
    /\ ap.pc = "idle"
    /\ nAppends < MaxAppends
    /\ ap' = [pc |-> "open", event |-> event, json |-> <<>>, preStore |-> store,
              preFile |-> logFile, result |-> "none", failedAt |-> "none"]
    /\ nAppends' = nAppends + 1
    /\ UNCHANGED <<store, logFile, nFailed>>
    /\ UNCHANGED notStore

\* OpenOptions::new().append(true).create(true).open(path)
AppendOpen ==
    /\ ap.pc = "open"
    /\ \/ ap' = [ap EXCEPT !.pc = "serialize"] /\ UNCHANGED nFailed
       \/ ApReturnErr("open")
    /\ UNCHANGED <<store, logFile, nAppends>>
    /\ UNCHANGED notStore

\* serde_json::to_string(&event)
AppendSerialize ==
    /\ ap.pc = "serialize"
    /\ \/ ap' = [ap EXCEPT !.pc = "write_json", !.json = to_string(ap.event)]
          /\ UNCHANGED nFailed
       \/ ApReturnErr("serialize")
    /\ UNCHANGED <<store, logFile, nAppends>>
    /\ UNCHANGED notStore

\* Mutant: the file is opened without append(true) and written from its start.
AppendWriteJson_FromStart ==
    /\ ap.pc = "write_json"
    /\ logFile' = ap.json \o SubSeq(logFile, Len(ap.json) + 1, Len(logFile))
    /\ ap' = [ap EXCEPT !.pc = "write_nl"]
    /\ UNCHANGED <<store, nAppends, nFailed>>
    /\ UNCHANGED notStore

\* file.write_all(event_json.as_bytes()): a failed write_all may have written
\* any proper prefix of the text.
AppendWriteJson ==
    /\ ap.pc = "write_json"
    /\ \/ /\ logFile' = logFile \o ap.json
          /\ ap' = [ap EXCEPT !.pc = "write_nl"]
          /\ UNCHANGED nFailed
       \/ \E k \in 0..(Len(ap.json) - 1) :
             /\ logFile' = logFile \o SubSeq(ap.json, 1, k)
             /\ ApReturnErr("write_json")
    /\ UNCHANGED <<store, nAppends>>
    /\ UNCHANGED notStore

\* Mutant: the record is applied before the newline is written.
AppendWriteNewline_AppliesFirst ==
    /\ ap.pc = "write_nl"
    /\ store' = apply_event(store, ap.event)
    /\ \/ /\ logFile' = logFile \o <<NL>>
          /\ ap' = [ap EXCEPT !.pc = "idle", !.result = "ok"]
          /\ UNCHANGED nFailed
       \/ /\ UNCHANGED logFile
          /\ ApReturnErr("write_nl")
    /\ UNCHANGED nAppends
    /\ UNCHANGED notStore

\* file.write_all(b"\n")
AppendWriteNewline ==
    /\ ap.pc = "write_nl"
    /\ \/ /\ logFile' = logFile \o <<NL>>
          /\ ap' = [ap EXCEPT !.pc = "apply"]
          /\ UNCHANGED nFailed
       \/ /\ UNCHANGED logFile
          /\ ApReturnErr("write_nl")
    /\ UNCHANGED <<store, nAppends>>
    /\ UNCHANGED notStore

\* self.apply_event(event.clone()); Ok(())
AppendApply ==
    /\ ap.pc = "apply"
    /\ store' = apply_event(store, ap.event)
    /\ ap' = [ap EXCEPT !.pc = "idle", !.result = "ok"]
    /\ UNCHANGED <<logFile, nAppends, nFailed>>
    /\ UNCHANGED notStore

\* init::event_log::create: OpenOptions create(true).truncate(false).write(true);
\* the file is made when missing and its content is kept.
event_log_create(f) == f

\* A new process: main makes sure the log exists, loads the store with
\* Issues::from_jsonl_file and ends with the error when the load fails.
Restart ==
    /\ ap.pc \in {"idle", "failed"}
    /\ ap.result # "loaded"
    /\ LET res == from_jsonl_file(logFile) IN
       IF res.ok
       THEN /\ store' = res.store
            /\ ap' = [ApIdle EXCEPT !.result = "loaded", !.preStore = store,
                                    !.preFile = logFile]
       ELSE /\ store' = Issues_default
            /\ ap' = [ApIdle EXCEPT !.pc = "load_failed", !.preFile = logFile]
    /\ logFile' = event_log_create(logFile)
    /\ UNCHANGED <<nAppends, nFailed>>
    /\ UNCHANGED notStore

LdOff == [pc |-> "off", items |-> <<>>, res |-> LoadOk(Issues_default)]

InitStore ==
    /\ AuxOff
    /\ store = Issues_default
    /\ logFile = <<>>
    /\ ap = ApIdle
    /\ nAppends = 0
    /\ nFailed = 0
    /\ ld = LdOff
    /\ Tui_new
    /\ AppOff

NextStore ==
    \/ \E event \in IssueEvents : AppendCall(event)
    \/ AppendOpen
    \/ AppendSerialize
    \/ AppendWriteJson
    \/ AppendWriteNewline
    \/ AppendApply
    \/ Restart

SpecStore == InitStore /\ [][NextStore]_vars

(***************************************************************************)
(* SpecLoad: Issues::from_jsonl_file on a file that already exists.  Init  *)
(* draws the file: a sequence of lines, each the text of a record or a     *)
(* line that is no record, with blank and whitespace-only lines put in any *)
(* of the gaps, the records' lines padded with spaces or not, and the last *)
(* line ended by NL or not.                                                *)
(***************************************************************************)
LoadEvents ==
    { IssueCreated(Issue(7, <<"t">>, StatusOpen, PriorityLow)),
      IssueCreated(Issue(7, <<"t">>, StatusOpen, PriorityHigh)),
      IssueCreated(Issue(1, <<"t">>, StatusOpen, PriorityLow)),
      CommentAdded(Comment(7, <<"c">>)),
      CommentAdded(Comment(7, <<"c", NL>>)),
      StatusChanged(7, StatusClosed),
      StatusChanged(1, StatusClosed),
      PriorityChanged(7, PriorityHigh) }

\* A line that is no record: a record cut short.
BadLine == <<"{", "StatusChanged", "7">>

LoadItems == { [valid |-> TRUE, event |-> e, text |-> to_string(e)] : e \in LoadEvents }
             \cup { [valid |-> FALSE, event |-> StatusChanged(7, StatusOpen), text |-> BadLine] }

\* Blocks of blank lines: an empty line, a line of one space, both.
Fillers == { <<NL>>, <<SP, NL>>, <<NL, SP, SP, NL>> }

RECURSIVE BuildFile(_, _, _, _, _)
BuildFile(items, i, gaps, filler, pad) ==
    LET gap == IF i \in gaps THEN filler ELSE <<>> IN
    IF i >= Len(items) THEN gap
    ELSE gap \o pad \o items[i + 1].text \o pad \o <<NL>>
         \o BuildFile(items, i + 1, gaps, filler, pad)

SeqsUpTo(S, n) == UNION { [1..k -> S] : k \in 0..n }

InitLoad ==
    /\ AuxOff
    /\ Tui_new
    /\ AppOff
    /\ store = Issues_default
    /\ ap = ApIdle
    /\ nAppends = 0
    /\ nFailed = 0
    /\ \E items \in SeqsUpTo(LoadItems, MaxLoadRecs) :
       \E gaps \in SUBSET (0..Len(items)) :
       \E filler \in Fillers :
       \E pad \in {<<>>, <<SP>>} :
       \E cut \in {0, 1} :
          LET f == BuildFile(items, 0, gaps, filler, pad) IN
          /\ cut = 1 => (f # <<>> /\ f[Len(f)] = NL)
          /\ logFile = SubSeq(f, 1, Len(f) - cut)
          /\ ld = [pc |-> "start", items |-> items, res |-> LoadOk(Issues_default)]

\* std::fs::read_to_string(path) fails
LoadReadFails ==
    /\ ld.pc = "start"
    /\ ld' = [ld EXCEPT !.pc = "read_failed"]
    /\ UNCHANGED <<storeVars, muxVars, appVars, ed, sess, ph, widgetVars>>

\* the file is read; its lines are decoded and folded
Load ==
    /\ ld.pc = "start"
    /\ ld' = [ld EXCEPT !.pc = "done", !.res = from_jsonl_file(logFile)]
    /\ UNCHANGED <<storeVars, muxVars, appVars, ed, sess, ph, widgetVars>>

NextLoad ==
    \/ LoadReadFails
    \/ Load

SpecLoad == InitLoad /\ [][NextLoad]_vars

(***************************************************************************)
(* Properties of the store.                                                *)
(***************************************************************************)
IsPrefix(a, b) == Len(a) <= Len(b) /\ SubSeq(b, 1, Len(a)) = a

AppendInFlight == ap.pc \in {"open", "serialize", "write_json", "write_nl", "apply"}

\* C1: an append_to_log that returns an error at any step leaves the
\* projection (issues and comments) exactly as it was when it was called,
\* and as long as the call has not passed both writes the projection is the
\* one at the call; a projection changed by the call means that the text
\* and the newline are both in the file.
C1_FailedAppendLeavesProjection ==
    /\ ap.result = "err" => store = ap.preStore
    /\ AppendInFlight => store = ap.preStore
    /\ ap.result = "ok" =>
         /\ store = apply_event(ap.preStore, ap.event)
         /\ logFile = ap.preFile \o to_string(ap.event) \o <<NL>>

\* C1 witness: a call that wrote a record that changes the projection, failed
\* at its last step, the newline, on a store that is not empty.
C1_Witness ==
    /\ ap.result = "err"
    /\ ap.failedAt = "write_nl"
    /\ DOMAIN store.issues # {}
    /\ apply_event(store, ap.event) # store

\* C2: for every sequence of valid records, one per line, with blank and
\* whitespace-only lines anywhere between them, from_jsonl_file succeeds and
\* returns the projection that applying the records one at a time, in file
\* order, to the empty store gives; the blank lines change nothing.
AllValid(items) == \A i \in 1..Len(items) : items[i].valid

ItemEvents(items) == [i \in 1..Len(items) |-> items[i].event]

C2_ReplayDeterminism ==
    (ld.pc = "done" /\ AllValid(ld.items)) =>
        /\ ld.res.ok
        /\ ld.res.store = FoldEvents(Issues_default, ItemEvents(ld.items))

\* C2 witness: a loaded file of two records with blank lines in it whose
\* order matters (the issue is created, then closed).
C2_Witness ==
    /\ ld.pc = "done"
    /\ Len(ld.items) = 2
    /\ AllValid(ld.items)
    /\ \E i \in 1..(Len(logFile) - 1) : logFile[i] = NL /\ logFile[i + 1] \in {NL, SP}
    /\ 7 \in DOMAIN ld.res.store.issues
    /\ ld.res.store.issues[7].status = StatusClosed

\* C3: the log is append-only.  No step takes a token away or changes one;
\* a successful append_to_log extends the file by exactly one line, not
\* empty and ended by NL; and no empty line is ever written.
NoEmptyLine(f) ==
    /\ f # <<>> => f[1] # NL
    /\ \A i \in 1..(Len(f) - 1) : ~(f[i] = NL /\ f[i + 1] = NL)

OneLine(l) ==
    /\ Len(l) >= 2
    /\ l[Len(l)] = NL
    /\ \A i \in 1..(Len(l) - 1) : l[i] # NL

C3_LogAppendOnly ==
    /\ [](NoEmptyLine(logFile))
    /\ [](ap.result = "ok" =>
            /\ IsPrefix(ap.preFile, logFile)
            /\ OneLine(SubSeq(logFile, Len(ap.preFile) + 1, Len(logFile))))
    /\ [][IsPrefix(logFile, logFile')]_vars

\* C3 witness: a successful append to a file that already held a line.
C3_Witness ==
    /\ ap.result = "ok"
    /\ ap.preFile # <<>>
    /\ Len(logFile) > Len(ap.preFile)

\* C4: from the empty file and the empty store, after successful appends
\* only, loading the file gives the in-memory projection; the file of
\* IssueCreated(id 7) then CommentAdded(parent 7) loads to exactly one issue,
\* with id 7, and exactly one comment for it.
C4_ReloadEqualsProjection ==
    (nFailed = 0 /\ ap.pc = "idle") =>
        LET res == from_jsonl_file(logFile) IN
        /\ res.ok
        /\ res.store = store
        /\ (\E i \in AllIssues, c \in AllComments :
               /\ i.id = 7
               /\ c.parent_issue = 7
               /\ logFile = to_string(IssueCreated(i)) \o <<NL>>
                            \o to_string(CommentAdded(c)) \o <<NL>>)
           => /\ DOMAIN res.store.issues = {7}
              /\ res.store.issues[7].id = 7
              /\ DOMAIN res.store.comments = {7}
              /\ Len(res.store.comments[7]) = 1

\* C4 witness: issue 7 and its comment were appended, and a new process has
\* loaded the file.
C4_Witness ==
    /\ ap.result = "loaded"
    /\ nFailed = 0
    /\ nAppends = 2
    /\ DOMAIN store.issues = {7}
    /\ DOMAIN store.comments = {7}
    /\ Len(store.comments[7]) = 1
    /\ store.comments[7][1].content = <<"c", NL>>

\* C36: whenever no append is in flight, whatever the earlier appends did,
\* succeeding or failing at any step, the log file decodes, and it decodes to
\* exactly the in-memory projection.
C36_LogDecodesToProjection ==
    ap.pc \in {"idle", "failed"} =>
        LET res == from_jsonl_file(logFile) IN
        /\ res.ok
        /\ res.store = store

(***************************************************************************)
(* SpecMux: the event multiplexer of a Tui (feat/tui/wrapper.rs).  The     *)
(* caller owns the Tui and calls start(), stop() and next(); every start() *)
(* spawns a task on the runtime, which runs beside the caller.  A poll of  *)
(* a task is not one step: the runtime's worker may be anywhere in it      *)
(* while the caller goes on, and abort() does not interrupt a poll that    *)
(* is running; it makes the runtime drop the task the next time the task   *)
(* is not running.  The timers and the input stream are the environment:   *)
(* each may be ready whenever the task looks.                              *)
(***************************************************************************)
StopAbortAfter == 50
StopBreakAfter == 100

\* enum Event, by the name of the variant
EventKinds == {"Init", "Error", "Tick", "Render", "FocusGained", "FocusLost",
               "Paste", "Key", "Mouse", "Resize"}

\* what reader.next() gives: Some(Ok(evt)), Some(Err(_)) or None
\* The terminal sends mouse events while mouse capture is on, pastes while
\* bracketed paste is on and focus events while it reports focus changes.
ReaderItems ==
    { ReaderItem("ok", "Key", kind) : kind \in {"Press", "Release", "Repeat"} }
    \cup { ReaderItem("ok", "Resize", "none"),
           ReaderItem("err", "none", "none"), ReaderItem("none", "none", "none") }
    \cup (IF tui.mouse THEN { ReaderItem("ok", "Mouse", "none") } ELSE {})
    \cup (IF tui.paste THEN { ReaderItem("ok", "Paste", "none") } ELSE {})
    \cup (IF tui.focus
          THEN { ReaderItem("ok", "FocusLost", "none"), ReaderItem("ok", "FocusGained", "none") }
          ELSE {})

\* the timers, as firings of the select!
TickFiring == ReaderItem("timer", "Tick", "none")
RenderFiring == ReaderItem("timer", "Render", "none")

\* Mutant: a key event is forwarded whatever its kind.
forward_AnyKey(item) ==
    IF item.tag = "ok" THEN item.type
    ELSE IF item.tag = "err" THEN "Error"
    ELSE "none"

\* the arm of the match on maybe_event: the Event it sends, "none" when it
\* sends nothing
forward(item) ==
    IF item.tag = "ok" THEN
        CASE item.type = "Key" -> IF item.kind = "Press" THEN "Key" ELSE "none"
          [] item.type = "Mouse" -> "Mouse"
          [] item.type = "Resize" -> "Resize"
          [] item.type = "FocusLost" -> "FocusLost"
          [] item.type = "FocusGained" -> "FocusGained"
          [] item.type = "Paste" -> "Paste"
    ELSE IF item.tag = "err" THEN "Error"
    ELSE "none"

\* event_tx.send(..): the event joins the channel.  An event is marked stale
\* when a later start() has returned by the time it is sent, and a send is
\* counted against stop() when stop() has returned and start() was not
\* called since.
send(r, kind) ==
    /\ Len(chan) < MaxChan
    /\ chan' = Append(chan, [kind |-> kind, run |-> r, stale |-> r < tui.task])
    /\ obs' = [obs EXCEPT !.sentAfterStop = @ \/ obs.stopped]

\* Mutant: a send that fails is passed over and the task goes on.
SendOrFail_GoesOn(r, kind, nextPc) ==
    IF tui.alive
    THEN /\ send(r, kind)
         /\ task' = [task EXCEPT ![r].pc = nextPc, ![r].ev = "none", ![r].src = NoFiring,
                                 ![r].first = IF @ = "none" THEN kind ELSE @]
    ELSE /\ task' = [task EXCEPT ![r].pc = nextPc, ![r].ev = "none", ![r].src = NoFiring]
         /\ UNCHANGED <<chan, obs>>

\* event_tx.send(..).change_context(TuiError)?: Ok while the receiver
\* exists, and the task goes on at nextPc; an Err once the Tui and with it
\* event_rx was dropped, and the task returns it, the event still in hand
SendOrFail(r, kind, nextPc) ==
    IF tui.alive
    THEN /\ send(r, kind)
         /\ task' = [task EXCEPT ![r].pc = nextPc, ![r].ev = "none", ![r].src = NoFiring,
                                 ![r].first = IF @ = "none" THEN kind ELSE @]
    ELSE /\ task' = [task EXCEPT ![r].pc = "finished", ![r].ev = kind, ![r].res = "err"]
         /\ UNCHANGED <<chan, obs>>

\* self.cancel()
StartCancel ==
    /\ caller.pc = "idle"
    /\ tui.task < MaxRuns
    /\ token' = [token EXCEPT ![tui.cancellation_token] = TRUE]
    /\ caller' = [caller EXCEPT !.pc = "start_token"]
    /\ obs' = [obs EXCEPT !.stopped = FALSE]
    /\ UNCHANGED <<tui, task, chan>>
    /\ UNCHANGED notMux

\* self.cancellation_token = CancellationToken::new()
StartNewToken ==
    /\ caller.pc = "start_token"
    /\ tui' = [tui EXCEPT !.cancellation_token = tui.task + 1]
    /\ caller' = [caller EXCEPT !.pc = "start_spawn"]
    /\ UNCHANGED <<task, token, chan, obs>>
    /\ UNCHANGED notMux

\* self.task = tokio::spawn(..) with clones of the token and of event_tx
StartSpawn ==
    /\ caller.pc = "start_spawn"
    /\ LET r == tui.task + 1 IN
       /\ task' = [task EXCEPT ![r] = TaskSpawned(tui.cancellation_token)]
       /\ tui' = [tui EXCEPT !.task = r]
    /\ caller' = [caller EXCEPT !.pc = "idle"]
    /\ UNCHANGED <<token, chan, obs>>
    /\ UNCHANGED notMux

\* the task of Tui::new: async { Ok(()) }
TaskDummy ==
    /\ task[0].pc = "spawned"
    /\ task' = [task EXCEPT ![0].pc = "finished", ![0].res = "ok"]
    /\ UNCHANGED <<tui, token, chan, caller, obs>>
    /\ UNCHANGED notMux

\* Mutant: the task goes into its loop without sending Init.
TaskBegin_SkipsInit(r) ==
    /\ r >= 1
    /\ task[r].pc = "spawned"
    /\ ~task[r].aborted
    /\ task' = [task EXCEPT ![r].pc = "polling"]
    /\ UNCHANGED <<tui, token, chan, caller, obs>>
    /\ UNCHANGED notMux

\* the first poll begins: the reader and the two intervals are made
TaskBegin(r) ==
    /\ r >= 1
    /\ task[r].pc = "spawned"
    /\ ~task[r].aborted
    /\ task' = [task EXCEPT ![r].pc = "init"]
    /\ UNCHANGED <<tui, token, chan, caller, obs>>
    /\ UNCHANGED notMux

\* event_tx.send(Event::Init)
TaskSendInit(r) ==
    /\ task[r].pc = "init"
    /\ SendOrFail(r, "Init", "polling")
    /\ UNCHANGED <<tui, token, caller>>
    /\ UNCHANGED notMux

\* select!: the branch of the token is ready and is the one taken; break, Ok(())
TaskCancelled(r) ==
    /\ task[r].pc = "polling"
    /\ token[task[r].tok]
    /\ task' = [task EXCEPT ![r].pc = "finished", ![r].res = "ok"]
    /\ UNCHANGED <<tui, token, chan, caller, obs>>
    /\ UNCHANGED notMux

\* select!: the branch of the reader is ready and is the one taken: the
\* item is read from the terminal's input
TaskInput(r) ==
    /\ task[r].pc = "polling"
    /\ \E item \in ReaderItems :
          /\ task' = [task EXCEPT ![r].pc = "body", ![r].src = item,
                                  ![r].ev = forward(item)]
          /\ obs' = [obs EXCEPT !.readAfterKill = @ \/ (~tui.alive /\ item.tag # "none")]
    /\ UNCHANGED <<tui, token, chan, caller>>
    /\ UNCHANGED notMux

\* select!: the branch of the tick interval is ready and is the one taken
TaskTick(r) ==
    /\ task[r].pc = "polling"
    /\ task' = [task EXCEPT ![r].pc = "body", ![r].src = TickFiring, ![r].ev = "Tick"]
    /\ UNCHANGED <<tui, token, chan, caller, obs>>
    /\ UNCHANGED notMux

\* select!: the branch of the render interval is ready and is the one taken
TaskRender(r) ==
    /\ task[r].pc = "polling"
    /\ task' = [task EXCEPT ![r].pc = "body", ![r].src = RenderFiring, ![r].ev = "Render"]
    /\ UNCHANGED <<tui, token, chan, caller, obs>>
    /\ UNCHANGED notMux

\* the body of the branch taken: event_tx.send(..)? where the arm sends, and
\* nothing where it does not (a key that is not a press, the end of the
\* input stream); then the loop goes round
TaskSend(r) ==
    /\ task[r].pc = "body"
    /\ IF task[r].ev = "none"
       THEN /\ task' = [task EXCEPT ![r].pc = "polling", ![r].src = NoFiring]
            /\ UNCHANGED <<chan, obs>>
       ELSE SendOrFail(r, task[r].ev, "polling")
    /\ UNCHANGED <<tui, token, caller>>
    /\ UNCHANGED notMux

\* select!: no branch is ready; the poll returns Pending
TaskPark(r) ==
    /\ task[r].pc = "polling"
    /\ ~token[task[r].tok]
    /\ task' = [task EXCEPT ![r].pc = "parked"]
    /\ UNCHANGED <<tui, token, chan, caller, obs>>
    /\ UNCHANGED notMux

\* a branch became ready: the runtime polls the task again
TaskWake(r) ==
    /\ task[r].pc = "parked"
    /\ ~task[r].aborted
    /\ task' = [task EXCEPT ![r].pc = "polling"]
    /\ UNCHANGED <<tui, token, chan, caller, obs>>
    /\ UNCHANGED notMux

\* the runtime drops an aborted task that is not in a poll
TaskDropped(r) ==
    /\ task[r].pc \in {"spawned", "parked"}
    /\ task[r].aborted
    /\ task' = [task EXCEPT ![r].pc = "finished", ![r].res = "cancelled"]
    /\ UNCHANGED <<tui, token, chan, caller, obs>>
    /\ UNCHANGED notMux

\* stop(): self.cancel(); let mut counter = 0
StopCancel ==
    /\ caller.pc = "idle"
    /\ token' = [token EXCEPT ![tui.cancellation_token] = TRUE]
    /\ caller' = [pc |-> "stop_loop", counter |-> 0]
    /\ UNCHANGED <<tui, task, chan, obs>>
    /\ UNCHANGED notMux

\* Mutant: the loop of stop() without its break.
StopPoll_NoBreak ==
    /\ caller.pc = "stop_loop"
    /\ IF task[tui.task].pc = "finished"
       THEN /\ caller' = [pc |-> "idle", counter |-> 0]
            /\ obs' = [obs EXCEPT !.stopped = TRUE]
            /\ UNCHANGED task
       ELSE /\ task' = IF caller.counter + 1 > StopAbortAfter
                       THEN [task EXCEPT ![tui.task].aborted = TRUE] ELSE task
            /\ caller' = [caller EXCEPT !.counter = @ + 1]
            /\ UNCHANGED obs
    /\ UNCHANGED <<tui, token, chan>>
    /\ UNCHANGED notMux

\* stop(): one turn of  while !self.task.is_finished() { sleep(1 ms);
\* counter += 1; if counter > 50 { abort } if counter > 100 { break } },
\* or the test of the loop ending it; Ok(())
StopPoll ==
    /\ caller.pc = "stop_loop"
    /\ IF task[tui.task].pc = "finished"
       THEN /\ caller' = [pc |-> "idle", counter |-> 0]
            /\ obs' = [obs EXCEPT !.stopped = TRUE]
            /\ UNCHANGED task
       ELSE LET counter == caller.counter + 1 IN
            /\ task' = IF counter > StopAbortAfter
                       THEN [task EXCEPT ![tui.task].aborted = TRUE] ELSE task
            /\ IF counter > StopBreakAfter
               THEN /\ caller' = [pc |-> "idle", counter |-> 0]
                    /\ obs' = [obs EXCEPT !.stopped = TRUE]
               ELSE /\ caller' = [caller EXCEPT !.counter = counter]
                    /\ UNCHANGED obs
    /\ UNCHANGED <<tui, token, chan>>
    /\ UNCHANGED notMux

\* The senders of the channel: the event_tx the Tui holds itself (0 here:
\* the task of Tui::new has none), and the clone each task was given, which
\* lives as long as the task.
Senders ==
    (IF tui.alive THEN {0} ELSE {})
    \cup { r \in Runs \ {0} : task[r].pc \notin {"none", "finished"} }

\* the Tui exists and its owner is between calls
CanCall == caller.pc = "idle" /\ tui.alive

\* next(): self.event_rx.recv().await gives the oldest event of the
\* channel; with the channel empty it waits while a sender exists, and
\* gives None when none does
next ==
    /\ CanCall
    /\ IF chan # <<>>
       THEN /\ chan' = Tail(chan)
            /\ obs' = [obs EXCEPT !.staleDelivered = @ \/ Head(chan).stale]
       ELSE /\ Senders = {}
            /\ obs' = [obs EXCEPT !.gotNone = TRUE]
            /\ UNCHANGED chan
    /\ UNCHANGED <<tui, task, token, caller>>
    /\ UNCHANGED notMux

InitMux ==
    /\ AuxOff
    /\ Tui_new
    /\ AppOff
    /\ store = Issues_default
    /\ logFile = <<>>
    /\ ap = ApIdle
    /\ nAppends = 0
    /\ nFailed = 0
    /\ ld = LdOff

\* Only stop() asks for an abort: without it no task is dropped.
NextMux ==
    \/ StartCancel
    \/ StartNewToken
    \/ StartSpawn
    \/ next
    \/ TaskDummy
    \/ \E r \in Runs : TaskBegin(r)
    \/ \E r \in Runs : TaskSendInit(r)
    \/ \E r \in Runs : TaskCancelled(r)
    \/ \E r \in Runs : TaskInput(r)
    \/ \E r \in Runs : TaskTick(r)
    \/ \E r \in Runs : TaskRender(r)
    \/ \E r \in Runs : TaskSend(r)
    \/ \E r \in Runs : TaskPark(r)
    \/ \E r \in Runs : TaskWake(r)

SpecMux == InitMux /\ [][NextMux]_vars

(***************************************************************************)
(* SpecStop: stop() on a Tui that was started once, as App::new_backend    *)
(* starts it.  Init is the state in which start() returned.                *)
(***************************************************************************)
\* a Tui on which start() was called once and has returned, built with one
\* of the configurations Configs
Started(Configs) ==
    /\ \E cfg \in Configs :
          tui = [task |-> 1, cancellation_token |-> 1, mouse |-> cfg.mouse,
                 paste |-> cfg.paste, alive |-> TRUE, focus |-> cfg.focus]
    /\ task = [r \in Runs |-> IF r <= 1 THEN TaskSpawned(r) ELSE TaskNone]
    /\ token = [t \in Runs |-> t = 0]
    /\ chan = <<>>
    /\ caller = [pc |-> "idle", counter |-> 0]
    /\ obs = ObsNone

InitStop ==
    /\ AuxOff
    /\ Started({DefaultConfig})
    /\ AppOff
    /\ store = Issues_default
    /\ logFile = <<>>
    /\ ap = ApIdle
    /\ nAppends = 0
    /\ nFailed = 0
    /\ ld = LdOff

NextStop ==
    \/ StopCancel
    \/ StopPoll
    \/ next
    \/ TaskDummy
    \/ \E r \in Runs : TaskBegin(r)
    \/ \E r \in Runs : TaskSendInit(r)
    \/ \E r \in Runs : TaskCancelled(r)
    \/ \E r \in Runs : TaskInput(r)
    \/ \E r \in Runs : TaskTick(r)
    \/ \E r \in Runs : TaskRender(r)
    \/ \E r \in Runs : TaskSend(r)
    \/ \E r \in Runs : TaskPark(r)
    \/ \E r \in Runs : TaskWake(r)
    \/ \E r \in Runs : TaskDropped(r)

\* The caller's thread runs: a turn of the loop of stop() that can be taken
\* is taken (std::thread::sleep returns).  Nothing is assumed of the tasks.
SpecStop == InitStop /\ [][NextStop]_vars /\ WF_vars(StopPoll)

(***************************************************************************)
(* SpecBackend: one backend as App::new_backend makes it, from start() to  *)
(* App::kill_backend.  The Tui is built with any configuration; its owner  *)
(* calls next() and, once, kill_backend, which drops it.  The task is not  *)
(* told: it runs on until a send of its own fails.                         *)
(***************************************************************************)
AllConfigs == [mouse : BOOLEAN, paste : BOOLEAN, focus : BOOLEAN]

\* App::kill_backend(tui): the Tui is dropped.  Drop for Tui leaves raw mode
\* (exit_raw_mode, followed under SpecApp and SpecExit); then the fields go:
\* event_rx, and with it the events still queued; event_tx; the join handle,
\* which detaches the task; the token, which is not cancelled by its drop.
kill_backend ==
    /\ CanCall
    /\ tui' = [tui EXCEPT !.alive = FALSE]
    /\ chan' = <<>>
    /\ UNCHANGED <<task, token, caller, obs>>
    /\ UNCHANGED notMux

InitBackend ==
    /\ AuxOff
    /\ Started(AllConfigs)
    /\ AppOff
    /\ store = Issues_default
    /\ logFile = <<>>
    /\ ap = ApIdle
    /\ nAppends = 0
    /\ nFailed = 0
    /\ ld = LdOff

\* Nothing cancels the token and nothing asks for an abort.
NextBackend ==
    \/ next
    \/ kill_backend
    \/ TaskDummy
    \/ \E r \in Runs : TaskBegin(r)
    \/ \E r \in Runs : TaskSendInit(r)
    \/ \E r \in Runs : TaskInput(r)
    \/ \E r \in Runs : TaskTick(r)
    \/ \E r \in Runs : TaskRender(r)
    \/ \E r \in Runs : TaskSend(r)
    \/ \E r \in Runs : TaskPark(r)
    \/ \E r \in Runs : TaskWake(r)

SpecBackend == InitBackend /\ [][NextBackend]_vars

(***************************************************************************)
(* Properties of the multiplexer.                                          *)
(***************************************************************************)
\* C7: start() cancels the run before it and makes a new token before it
\* spawns the new task, so that once start() has returned, next() gives no
\* event that a task of an earlier run sent after that return.
C7_NoStaleDelivery == ~obs.staleDelivered

\* C8: once stop() has returned (and start() was not called again) no task
\* sends an event to the channel, whatever the interleaving of the task
\* with the caller was.
C8_NoSendAfterStop == ~obs.sentAfterStop

\* C9: stop() always returns.  In its loop the token is cancelled, the
\* counter of polls never passes StopBreakAfter, abort() is asked for only
\* once StopAbortAfter polls found the task unfinished and has been asked
\* for whenever the counter is past StopAbortAfter, and a stop() that is
\* in its loop comes out of it, whatever the task does.
C9_StopAlwaysReturns ==
    /\ [](caller.pc = "stop_loop" =>
            /\ token[tui.cancellation_token]
            /\ caller.counter <= StopBreakAfter
            /\ (caller.counter > StopAbortAfter => task[tui.task].aborted))
    /\ [][\A r \in Runs : (task'[r].aborted /\ ~task[r].aborted) =>
              (r = tui.task /\ caller.counter >= StopAbortAfter)]_vars
    /\ (caller.pc = "stop_loop" ~> caller.pc = "idle")

\* C9 witness: stop() has returned although the task, asked to abort, is
\* still in a poll: the loop gave up after its last poll.
C9_Witness ==
    /\ obs.stopped
    /\ caller.pc = "idle"
    /\ task[tui.task].aborted
    /\ task[tui.task].pc = "body"

(***************************************************************************)
(* SpecApp: App::run (app.rs): the backend is made, then the loop takes    *)
(* one event at a time: the external-editor hand-off, the draw, the page's *)
(* input handler, the global keys.  The handlers change the store through  *)
(* Issues::append_to_log, taken here as one step with all its outcomes.    *)
(***************************************************************************)
\* The events next() can give the loop: a key arrives only as the
\* multiplexer forwards it.
KeyCodes == {"q", "/", "Esc", "Enter", "c", "n", "s", "a", "k", "x"}
KeyKinds == {"Press", "Release", "Repeat"}

AppEvents ==
    { [kind |-> k, code |-> "none", key_kind |-> "none"] :
        k \in {"Init", "Tick", "Render", "Resize"} }
    \cup { [kind |-> "Key", code |-> c, key_kind |-> kk] :
             c \in KeyCodes,
             kk \in { x \in KeyKinds : forward(ReaderItem("ok", "Key", x)) = "Key" } }

\* EventExt::keypress: the code of a key press, "none" otherwise
keypress(ev) ==
    IF ev.kind = "Key" /\ ev.key_kind = "Press" THEN ev.code ELSE "none"

\* Issues::append_to_log as one step: Ok with the record in the file and in
\* the projection, or Err with the projection as it was and the file longer
\* by what was written before the failure.
append_outcomes(s, f, event) ==
    LET json == to_string(event) IN
    { [ok |-> TRUE, store |-> apply_event(s, event), file |-> f \o json \o <<NL>>] }
    \cup { [ok |-> FALSE, store |-> s, file |-> f \o SubSeq(json, 1, k)] :
             k \in 0..Len(json) }

Max(S) == CHOOSE m \in S : \A k \in S : k <= m

\* Issues::next_issue_id: keys().map(|&id| id + 1).max().unwrap_or(1).  The
\* sum is a u64 sum: with u64::MAX among the keys it panics in a build with
\* overflow checks and wraps to 0 in a build without them.
next_issue_id(s) ==
    IF DOMAIN s.issues = {} THEN { [ok |-> TRUE, id |-> 1] }
    ELSE { [ok |-> TRUE, id |-> Max({ (k + 1) % (U64Max + 1) : k \in DOMAIN s.issues })] }
         \cup (IF U64Max \in DOMAIN s.issues THEN { [ok |-> FALSE, id |-> 0] } ELSE {})

\* Status::invert
Status_invert(status) == IF status = StatusOpen THEN StatusClosed ELSE StatusOpen

\* What the table's display_map gives for the selected row.  Nothing in the
\* source writes the map, so any content is taken: no entry for the row, the
\* id of an issue of the store, an id of no issue.
UnknownId == 0

display_map_get(s) ==
    { [found |-> FALSE, id |-> UnknownId] }
    \cup { [found |-> TRUE, id |-> id] : id \in DOMAIN s.issues \cup {UnknownId} }

\* the result of a handler or of a continuation
Outcome(res, prop, a, s, f) ==
    [res |-> res, prop |-> prop, app |-> a, store |-> s, file |-> f]

\* InputBoxState::handle_input: a pressed character is taken by the box
\* (Backspace, Left and Right too); anything else is passed on.  The text
\* of the box is not kept.
InputBox_handle_input(ev) ==
    IF keypress(ev) \in {"q", "/", "c", "n", "s", "a", "k", "x"} THEN "Stop" ELSE "Continue"

\* Mutant: an append that fails is passed over and Stop is returned.
toggle_status_IgnoresErr(a, s, f) ==
    IF a.selected = NoIndex THEN { Outcome("ok", "Stop", a, s, f) }
    ELSE UNION { IF ~d.found THEN { Outcome("panic", "none", a, s, f) }
                 ELSE IF d.id \notin DOMAIN s.issues
                 THEN { Outcome("err", "none", a, s, f) }
                 ELSE { IF o.ok THEN Outcome("ok", "Stop", a, o.store, o.file)
                        ELSE Outcome("ok", "Stop", a, o.store, o.file) :
                        o \in append_outcomes(s, f,
                                StatusChanged(d.id, Status_invert(s.issues[d.id].status))) } :
                 d \in display_map_get(s) }

\* The body of the loop over the selected rows, d being what the display
\* map holds for the row: display_map[&index] panics when the map has no
\* entry; get_issue(..).ok_or(IssueTablePageInputError)? returns an Err when
\* the store has no such issue; append_to_log(..)? returns the Err of a
\* failed append.
toggle_row(a, s, f, d) ==
    IF ~d.found THEN { Outcome("panic", "none", a, s, f) }
    ELSE IF d.id \notin DOMAIN s.issues
    THEN { Outcome("err", "none", a, s, f) }
    ELSE { IF o.ok THEN Outcome("ok", "Stop", a, o.store, o.file)
           ELSE Outcome("err", "none", a, o.store, o.file) :
           o \in append_outcomes(s, f,
                   StatusChanged(d.id, Status_invert(s.issues[d.id].status))) }

\* IssueTablePageInput::handle, Focus::IssueTable, the arm of 's': for the
\* selected row, if there is one, the issue the display map names is looked
\* up and a StatusChanged with its status inverted is appended; Stop is
\* returned after the loop.
toggle_status(a, s, f) ==
    IF a.selected = NoIndex THEN { Outcome("ok", "Stop", a, s, f) }
    ELSE UNION { toggle_row(a, s, f, d) : d \in display_map_get(s) }

\* Mutant: the '/' key moves the focus and lets the event go on.
focus_filter_Continues(a, s, f) ==
    { Outcome("ok", "Continue",
              [a EXCEPT !.focus = "IssueTableFilter", !.filter_focused = TRUE], s, f) }

\* IssueTablePageInput::handle, Focus::IssueTable, the arm of '/':
\* event.is_char('/') holds of every press of '/'
focus_filter(a, s, f) ==
    { Outcome("ok", "Stop",
              [a EXCEPT !.focus = "IssueTableFilter", !.filter_focused = TRUE], s, f) }

\* IssueTablePageInput::handle, the arm of Focus::IssueTableFilter
filter_focus(a, s, f, ev) ==
    IF keypress(ev) \in {"Esc", "Enter"}
    THEN { Outcome("ok", "Stop",
                   [a EXCEPT !.focus = "IssueTable", !.filter_focused = FALSE], s, f) }
    ELSE { Outcome("ok", InputBox_handle_input(ev), a, s, f) }

\* Mutant: with a focus that is not the page's, the handler looks at the
\* event as if the table had the focus, and only then resets the focus.
IssueTable_default_ActsOnKey(a, s, f, ev) ==
    IF keypress(ev) = "n"
    THEN { Outcome("ok", "Stop",
                   [a EXCEPT !.focus = "IssueTable",
                             !.entry = [kind |-> "new_issue", issue_id |-> 0]], s, f) }
    ELSE { Outcome("ok", "Stop", [a EXCEPT !.focus = "IssueTable"], s, f) }

\* IssueTablePageInput::handle, the arm of any other focus
IssueTable_default(a, s, f, ev) ==
    { Outcome("ok", "Stop", [a EXCEPT !.focus = "IssueTable"], s, f) }

\* IssueThreadPageInput::handle, the arm of any other focus
IssueThread_default(a, s, f, ev) ==
    { Outcome("ok", "Stop", [a EXCEPT !.focus = "IssueThread"], s, f) }

\* IssueTablePageInput::handle
IssueTablePageInput_handle(a, s, f, ev) ==
    LET key == keypress(ev) IN
    IF a.focus = "IssueTable" THEN
        CASE key = "c" ->
               { Outcome("ok", "Stop", [a EXCEPT !.entry = [kind |-> "columns", issue_id |-> 0]],
                         s, f) }
          [] key = "n" ->
               { Outcome("ok", "Stop",
                         [a EXCEPT !.entry = [kind |-> "new_issue", issue_id |-> 0]], s, f) }
          [] key = "s" -> toggle_status(a, s, f)
          [] key = "k" ->
               { Outcome("ok", "Stop", [a EXCEPT !.selected = 0], s, f) }
          [] key = "Enter" ->
               IF a.selected = NoIndex THEN { Outcome("ok", "Stop", a, s, f) }
               ELSE { IF ~d.found THEN Outcome("ok", "Stop", a, s, f)
                      ELSE Outcome("ok", "Stop",
                                   [a EXCEPT !.thread = [issue_id |-> d.id, selected |-> 0],
                                             !.page = "IssueThread",
                                             !.focus = "IssueThread"], s, f) :
                      d \in display_map_get(s) }
          [] key = "/" -> focus_filter(a, s, f)
          [] OTHER -> { Outcome("ok", "Continue", a, s, f) }
    ELSE IF a.focus = "IssueTableFilter" THEN filter_focus(a, s, f, ev)
    ELSE IssueTable_default(a, s, f, ev)

\* Mutant: 'q' and Esc on the thread go back to the table page and leave the
\* focus where it is.
IssueThreadPageInput_handle_KeepsFocus(a, s, f, ev) ==
    LET key == keypress(ev) IN
    IF a.focus = "IssueThread" THEN
        CASE key \in {"q", "Esc"} ->
               { Outcome("ok", "Stop", [a EXCEPT !.page = "IssueTable"], s, f) }
          [] key = "k" ->
               { Outcome("ok", "Stop", [a EXCEPT !.thread.selected = 0], s, f) }
          [] key = "a" ->
               { Outcome("ok", "Stop",
                         [a EXCEPT !.entry = [kind |-> "comment",
                                              issue_id |-> a.thread.issue_id]], s, f) }
          [] OTHER -> { Outcome("ok", "Continue", a, s, f) }
    ELSE IssueThread_default(a, s, f, ev)

\* IssueThreadPageInput::handle
IssueThreadPageInput_handle(a, s, f, ev) ==
    LET key == keypress(ev) IN
    IF a.focus = "IssueThread" THEN
        CASE key \in {"q", "Esc"} ->
               { Outcome("ok", "Stop",
                         [a EXCEPT !.page = "IssueTable", !.focus = "IssueTable"], s, f) }
          [] key = "k" ->
               { Outcome("ok", "Stop", [a EXCEPT !.thread.selected = 0], s, f) }
          [] key = "a" ->
               { Outcome("ok", "Stop",
                         [a EXCEPT !.entry = [kind |-> "comment",
                                              issue_id |-> a.thread.issue_id]], s, f) }
          [] OTHER -> { Outcome("ok", "Continue", a, s, f) }
    ELSE IssueThread_default(a, s, f, ev)

\* The arm of handle_event's match on the page for the thread page.
handle_event_IssueThread(a, s, f, ev) == IssueThreadPageInput_handle(a, s, f, ev)

\* Mutant: the top-level keys are looked at whatever the page said.
global_keys_IgnoresPropagation(o, ev) ==
    IF o.res = "ok" /\ ev.kind = "Key" /\ ev.code = "q"
    THEN [o EXCEPT !.app.should_quit = TRUE]
    ELSE o

\* handle_event, after the page: match propagation { Continue => the
\* top-level keys, Stop => () }
global_keys(o, ev) ==
    IF o.res = "ok" /\ o.prop = "Continue" /\ ev.kind = "Key" /\ ev.code = "q"
    THEN [o EXCEPT !.app.should_quit = TRUE]
    ELSE o

\* App::handle_event
handle_event(a, s, f, ev) ==
    { global_keys(o, ev) :
        o \in IF a.page = "IssueTable" THEN IssueTablePageInput_handle(a, s, f, ev)
              ELSE handle_event_IssueThread(a, s, f, ev) }

\* What the editor hands back (dialoguer::Editor::edit): Err, Ok(None) when
\* the text was not saved, Ok(Some(text)).  The texts drawn for each kind of
\* entry: column lines; a template with its front matter and one without;
\* a comment and a blank comment.
ColumnLines == { <<<<"Title">>, <<"#", SP, "Id">>, <<>>, <<SP, "id", SP>>>>,
                 <<<<"#", "Title">>>> }

NewIssueTexts == { <<"---", "t", "Low", "---", "c">>, <<"t">> }

CommentTexts == { <<"c">>, <<SP, NL>> }

EditorTexts(kind) ==
    IF kind = "columns" THEN ColumnLines
    ELSE IF kind = "new_issue" THEN NewIssueTexts
    ELSE CommentTexts

EditorResults(kind) ==
    { [tag |-> "err", text |-> <<>>], [tag |-> "none", text |-> <<>>] }
    \cup { [tag |-> "some", text |-> t] : t \in EditorTexts(kind) }

\* Column::from_str: the known names whatever their case, else Custom with
\* the trimmed text
column_to_lowercase(tok) ==
    CASE tok \in {"Id", "ID", "id"} -> "id"
      [] tok \in {"Title", "TITLE", "title"} -> "title"
      [] tok \in {"Created", "created"} -> "created"
      [] tok \in {"Status", "status"} -> "status"
      [] tok \in {"Priority", "priority"} -> "priority"
      [] tok \in {"CreatedBy", "createdby"} -> "createdby"
      [] tok \in {"Created By", "created by"} -> "created by"
      [] OTHER -> tok

Column_from_str(l) ==
    LET lower == IF Len(l) = 1 THEN column_to_lowercase(l[1]) ELSE "" IN
    CASE lower = "id" -> Column("Id")
      [] lower = "title" -> Column("Title")
      [] lower = "created" -> Column("Created")
      [] lower = "status" -> Column("Status")
      [] lower = "priority" -> Column("Priority")
      [] lower \in {"createdby", "created by"} -> Column("CreatedBy")
      [] OTHER -> Custom(trim(l))

\* IssueTableState::columns_from_edited: the lines that are neither blank nor
\* comments, parsed, in order
RECURSIVE columns_from_edited(_)
columns_from_edited(ls) ==
    IF ls = <<>> THEN <<>>
    ELSE LET trimmed == trim(Head(ls)) IN
         IF trimmed = <<>> \/ trimmed[1] = "#"
         THEN columns_from_edited(Tail(ls))
         ELSE <<Column_from_str(trimmed)>> \o columns_from_edited(Tail(ls))

\* Issue::from_str: the front matter between the two "---", then the
\* comment; Err when the text has no front matter or a field does not parse
Issue_from_str(new_id, text) ==
    IF Len(text) >= 4 /\ text[1] = "---" /\ text[4] = "---"
    THEN LET priority == Priority_from_str(text[3]) IN
         IF ~priority.ok THEN Err
         ELSE Ok([issue |-> Issue(new_id, <<text[2]>>, StatusOpen, priority.val),
                  comment |-> Comment(new_id, SubSeq(text, 5, Len(text)))])
    ELSE Err

\* Mutant: a continuation called without a text clears the columns and goes
\* to the table.
callback_NoneResets(entry, a, s, f, resp) ==
    { Outcome("ok", "none",
              [a EXCEPT !.columns = <<>>, !.page = "IssueTable", !.focus = "IssueTable"],
              s, f) }

\* Mutant: when the comment of a new issue cannot be appended, the issue is
\* taken back from the projection.
callback_RollsBack(entry, a, s, f, resp) ==
    IF resp.tag = "none" THEN { Outcome("ok", "none", a, s, f) }
    ELSE IF entry.kind = "columns" THEN
        { Outcome("ok", "none", [a EXCEPT !.columns = columns_from_edited(resp.text)], s, f) }
    ELSE IF entry.kind = "new_issue" THEN
        UNION { IF ~next_id.ok THEN { Outcome("panic", "none", a, s, f) }
                ELSE
                LET parsed == Issue_from_str(next_id.id, resp.text) IN
                IF ~parsed.ok THEN { Outcome("err", "none", a, s, f) }
                ELSE UNION { IF ~o1.ok THEN { Outcome("err", "none", a, o1.store, o1.file) }
                             ELSE { IF o2.ok THEN Outcome("ok", "none", a, o2.store, o2.file)
                                    ELSE Outcome("err", "none", a, s, o2.file) :
                                    o2 \in append_outcomes(o1.store, o1.file,
                                                           CommentAdded(parsed.val.comment)) } :
                             o1 \in append_outcomes(s, f, IssueCreated(parsed.val.issue)) } :
                next_id \in next_issue_id(s) }
    ELSE LET content == trim(resp.text) IN
         IF content = <<>> THEN { Outcome("ok", "none", a, s, f) }
         ELSE { Outcome(IF o.ok THEN "ok" ELSE "err", "none", a, o.store, o.file) :
                o \in append_outcomes(s, f, CommentAdded(Comment(entry.issue_id, content))) }

\* The continuation of an entry, called with the App and the editor's text.
callback(entry, a, s, f, resp) ==
    IF resp.tag = "none" THEN { Outcome("ok", "none", a, s, f) }
    ELSE IF entry.kind = "columns" THEN
        { Outcome("ok", "none", [a EXCEPT !.columns = columns_from_edited(resp.text)], s, f) }
    ELSE IF entry.kind = "new_issue" THEN
        UNION { IF ~next_id.ok THEN { Outcome("panic", "none", a, s, f) }
                ELSE
                LET parsed == Issue_from_str(next_id.id, resp.text) IN
                IF ~parsed.ok THEN { Outcome("err", "none", a, s, f) }
                ELSE UNION { IF ~o1.ok THEN { Outcome("err", "none", a, o1.store, o1.file) }
                             ELSE { Outcome(IF o2.ok THEN "ok" ELSE "err", "none", a,
                                            o2.store, o2.file) :
                                    o2 \in append_outcomes(o1.store, o1.file,
                                                           CommentAdded(parsed.val.comment)) } :
                             o1 \in append_outcomes(s, f, IssueCreated(parsed.val.issue)) } :
                next_id \in next_issue_id(s) }
    ELSE LET content == trim(resp.text) IN
         IF content = <<>> THEN { Outcome("ok", "none", a, s, f) }
         ELSE { Outcome(IF o.ok THEN "ok" ELSE "err", "none", a, o.store, o.file) :
                o \in append_outcomes(s, f, CommentAdded(Comment(entry.issue_id, content))) }

\* IssueTableDraw::render changes the state it draws: a selection past the
\* rows shown is clamped.  The rows are the issues the filter lets through,
\* any number of the store's issues.
draw(a, s) ==
    IF a.page = "IssueTable"
    THEN { IF a.selected # NoIndex /\ a.selected >= rows
           THEN [a EXCEPT !.selected = IF rows = 0 THEN NoIndex ELSE rows - 1]
           ELSE a :
           rows \in 0..Cardinality(DOMAIN s.issues) }
    ELSE { a }

\* Tui::exit_raw_mode: nothing to do when raw mode is off; else flush, leave
\* the alternate screen, leave raw mode, each of which may fail.  A write of
\* the escape sequence that failed may have reached the terminal or not.
exit_raw_mode(t) ==
    IF ~t.raw THEN { [ok |-> TRUE, term |-> t], [ok |-> FALSE, term |-> t] }
    ELSE { [ok |-> FALSE, term |-> t],
           [ok |-> FALSE, term |-> [t EXCEPT !.alt = FALSE]],
           [ok |-> TRUE, term |-> [raw |-> FALSE, alt |-> FALSE]] }

\* Mutant: dropping the Tui leaves the terminal alone.
Drop_Tui_NoExit(t) == { [ok |-> TRUE, term |-> t] }

\* impl Drop for Tui: exit_raw_mode().expect(..): an Err is a panic
Drop_Tui(t) == exit_raw_mode(t)

\* a `?` that returns the error: the values the function owns are dropped
Fail(cause) == [run EXCEPT !.pc = "unwinding", !.cause = cause]

\* new_backend: Tui::new()
NbTuiNew ==
    /\ run.pc = "nb_new"
    /\ \/ run' = [run EXCEPT !.pc = "nb_raw", !.tui = "live"]
       \/ run' = Fail("Tui::new")
    /\ UNCHANGED <<term, app, store, logFile>>
    /\ UNCHANGED notApp

\* new_backend: enter_raw_mode: crossterm::terminal::enable_raw_mode()
NbEnableRaw ==
    /\ run.pc = "nb_raw"
    /\ \/ /\ term' = [term EXCEPT !.raw = TRUE]
          /\ run' = [run EXCEPT !.pc = "nb_alt"]
       \/ /\ UNCHANGED term
          /\ run' = Fail("enable_raw_mode")
    /\ UNCHANGED <<app, store, logFile>>
    /\ UNCHANGED notApp

\* new_backend: enter_raw_mode: execute!(stderr, EnterAlternateScreen, Hide);
\* a failed write may have switched the screen or not
NbEnterAlt ==
    /\ run.pc = "nb_alt"
    /\ \/ /\ term' = [term EXCEPT !.alt = TRUE]
          /\ run' = [run EXCEPT !.pc = "nb_start"]
       \/ /\ \E alt \in BOOLEAN : term' = [term EXCEPT !.alt = alt]
          /\ run' = Fail("EnterAlternateScreen")
    /\ UNCHANGED <<app, store, logFile>>
    /\ UNCHANGED notApp

\* new_backend: tui.start(), Ok(tui): back in run, or in try_external_editor
NbStart ==
    /\ run.pc = "nb_start"
    /\ run' = IF run.after = "loop" THEN [run EXCEPT !.pc = "next"]
              ELSE [run EXCEPT !.pc = "hs_draw", !.hs = Append(@, "resume")]
    /\ UNCHANGED <<term, app, store, logFile>>
    /\ UNCHANGED notApp

\* The appends a key may ask for, counted against the bound when it arrives.
need(ev) ==
    IF keypress(ev) = "n" THEN 2 ELSE IF keypress(ev) \in {"s", "a"} THEN 1 ELSE 0

\* Mutant: the event is drawn and routed without the pending-editor check.
Await_SkipsCheck ==
    /\ run.pc = "next"
    /\ \E ev \in AppEvents :
          /\ need(ev) <= run.quota
          /\ run' = [run EXCEPT !.pc = "draw", !.ev = ev, !.quota = @ - need(ev)]
    /\ UNCHANGED <<term, app, store, logFile>>
    /\ UNCHANGED notApp

\* run: if let Some(ev) = tui.next().await
Await ==
    /\ run.pc = "next"
    /\ \E ev \in AppEvents :
          /\ need(ev) <= run.quota
          /\ run' = [run EXCEPT !.pc = "try_editor", !.ev = ev, !.quota = @ - need(ev)]
    /\ UNCHANGED <<term, app, store, logFile>>
    /\ UNCHANGED notApp

\* try_external_editor: self.external_editor.take() is None
TryEditorNone ==
    /\ run.pc = "try_editor"
    /\ app.entry = NoEntry
    /\ run' = [run EXCEPT !.pc = "draw"]
    /\ UNCHANGED <<term, app, store, logFile>>
    /\ UNCHANGED notApp

\* Mutant: the entry is read where it lies and stays in the slot.
TryEditorTake_Peeks ==
    /\ run.pc = "try_editor"
    /\ app.entry # NoEntry
    /\ UNCHANGED app
    /\ run' = [run EXCEPT !.pc = "hs_kill", !.cb = app.entry, !.hs = <<"take">>]
    /\ UNCHANGED <<term, store, logFile>>
    /\ UNCHANGED notApp

\* try_external_editor: self.external_editor.take() is Some(entry)
TryEditorTake ==
    /\ run.pc = "try_editor"
    /\ app.entry # NoEntry
    /\ app' = [app EXCEPT !.entry = NoEntry]
    /\ run' = [run EXCEPT !.pc = "hs_kill", !.cb = app.entry, !.hs = <<"take">>]
    /\ UNCHANGED <<term, store, logFile>>
    /\ UNCHANGED notApp

\* try_external_editor: Self::kill_backend(tui)
HsKillBackend ==
    /\ run.pc = "hs_kill"
    /\ \E d \in Drop_Tui(term) :
          /\ term' = d.term
          /\ run' = IF d.ok
                    THEN [run EXCEPT !.pc = "hs_editor", !.tui = "none",
                                     !.hs = Append(@, "suspend")]
                    ELSE [run EXCEPT !.pc = "panicked", !.cause = "drop"]
    /\ UNCHANGED <<app, store, logFile>>
    /\ UNCHANGED notApp

\* Mutant: an editor that failed is passed over and the backend is made anew.
HsEditor_Recovers ==
    /\ run.pc = "hs_editor"
    /\ \E r \in EditorResults(run.cb.kind) :
          run' = IF r.tag = "err"
                 THEN [run EXCEPT !.pc = "nb_new", !.after = "handshake",
                                  !.cause = "editor", !.hs = Append(@, "editor")]
                 ELSE [run EXCEPT !.pc = "hs_callback", !.resp = r,
                                  !.hs = Append(@, "editor")]
    /\ UNCHANGED <<term, app, store, logFile>>
    /\ UNCHANGED notApp

\* try_external_editor: dialoguer::Editor .. .edit(&data)?
HsEditor ==
    /\ run.pc = "hs_editor"
    /\ \E r \in EditorResults(run.cb.kind) :
          run' = IF r.tag = "err"
                 THEN [Fail("editor") EXCEPT !.hs = Append(@, "editor")]
                 ELSE [run EXCEPT !.pc = "hs_callback", !.resp = r,
                                  !.hs = Append(@, "editor")]
    /\ UNCHANGED <<term, app, store, logFile>>
    /\ UNCHANGED notApp

\* Mutant: an Err of the continuation is dropped and the handshake goes on.
HsCallback_DropsErr ==
    /\ run.pc = "hs_callback"
    /\ \E o \in callback(run.cb, app, store, logFile, run.resp) :
          /\ app' = o.app
          /\ store' = o.store
          /\ logFile' = o.file
          /\ run' = IF o.res \in {"ok", "err"}
                    THEN [run EXCEPT !.pc = "nb_new", !.after = "handshake",
                                     !.hs = Append(@, "continuation")]
                    ELSE [run EXCEPT !.pc = "panicked", !.cause = "continuation",
                                     !.hs = Append(@, "continuation")]
    /\ UNCHANGED term
    /\ UNCHANGED notApp

\* try_external_editor: callback(self, result)?
HsCallback ==
    /\ run.pc = "hs_callback"
    /\ \E o \in callback(run.cb, app, store, logFile, run.resp) :
          /\ app' = o.app
          /\ store' = o.store
          /\ logFile' = o.file
          /\ run' = IF o.res = "ok"
                    THEN [run EXCEPT !.pc = "nb_new", !.after = "handshake",
                                     !.hs = Append(@, "continuation")]
                    ELSE IF o.res = "err"
                    THEN [Fail("continuation") EXCEPT !.hs = Append(@, "continuation")]
                    ELSE [run EXCEPT !.pc = "panicked", !.cause = "continuation",
                                     !.hs = Append(@, "continuation")]
    /\ UNCHANGED term
    /\ UNCHANGED notApp

\* tui.draw(|f| self.draw(f))?: an Err comes before the closure or after it
DrawStep(nextPc) ==
    \E a \in draw(app, store) :
       \/ /\ app' = a
          /\ run' = [run EXCEPT !.pc = nextPc, !.after = "loop"]
       \/ /\ app' \in {app, a}
          /\ run' = Fail("draw")

\* try_external_editor: the draw after the new backend, Ok(tui)
HsDraw ==
    /\ run.pc = "hs_draw"
    /\ DrawStep("draw")
    /\ UNCHANGED <<term, store, logFile>>
    /\ UNCHANGED notApp

\* run: match ev { Render | Key | Mouse | Resize => tui.draw(..)?, _ => () }
Draw ==
    /\ run.pc = "draw"
    /\ IF run.ev.kind \in {"Render", "Key", "Mouse", "Resize"}
       THEN DrawStep("handle")
       ELSE /\ run' = [run EXCEPT !.pc = "handle"]
            /\ UNCHANGED app
    /\ UNCHANGED <<term, store, logFile>>
    /\ UNCHANGED notApp

\* run: self.handle_event(&ev)?
HandleEvent ==
    /\ run.pc = "handle"
    /\ \E o \in handle_event(app, store, logFile, run.ev) :
          /\ app' = o.app
          /\ store' = o.store
          /\ logFile' = o.file
          /\ run' = [ (IF o.res = "ok" THEN [run EXCEPT !.pc = "check_quit"]
                       ELSE IF o.res = "err" THEN Fail("handle_event")
                       ELSE [run EXCEPT !.pc = "panicked", !.cause = "handle_event"])
                      EXCEPT !.routed = [page |-> app.page, focus |-> app.focus,
                                         prop |-> o.prop] ]
    /\ UNCHANGED term
    /\ UNCHANGED notApp

\* run: if self.should_quit { break }
CheckQuit ==
    /\ run.pc = "check_quit"
    /\ run' = [run EXCEPT !.pc = IF app.should_quit THEN "kill_backend" ELSE "next"]
    /\ UNCHANGED <<term, app, store, logFile>>
    /\ UNCHANGED notApp

\* run: Self::kill_backend(tui); Ok(())
KillBackend ==
    /\ run.pc = "kill_backend"
    /\ \E d \in Drop_Tui(term) :
          /\ term' = d.term
          /\ run' = IF d.ok
                    THEN [run EXCEPT !.pc = "returned_ok", !.tui = "none", !.cause = "quit"]
                    ELSE [run EXCEPT !.pc = "panicked", !.cause = "drop"]
    /\ UNCHANGED <<app, store, logFile>>
    /\ UNCHANGED notApp

\* an Err on its way out of run: the Tui, if one is owned, is dropped
Unwind ==
    /\ run.pc = "unwinding"
    /\ IF run.tui = "live"
       THEN \E d \in Drop_Tui(term) :
               /\ term' = d.term
               /\ run' = IF d.ok THEN [run EXCEPT !.pc = "returned_err", !.tui = "none"]
                         ELSE [run EXCEPT !.pc = "panicked"]
       ELSE /\ UNCHANGED term
            /\ run' = [run EXCEPT !.pc = "returned_err"]
    /\ UNCHANGED <<app, store, logFile>>
    /\ UNCHANGED notApp

\* The store App::new is given: empty, or loaded from a log of one issue
\* whose id is the largest a record can hold.
InitIssue == IssueCreated(Issue(U64Max, <<"t">>, StatusOpen, PriorityLow))

InitLogs == { <<>>, <<InitIssue>> }

RECURSIVE LogText(_)
LogText(events) ==
    IF events = <<>> THEN <<>>
    ELSE to_string(Head(events)) \o <<NL>> \o LogText(Tail(events))

InitApp ==
    /\ AuxOff
    /\ term = [raw |-> FALSE, alt |-> FALSE]
    /\ \E page \in Pages : \E focus \in Focuses : app = App_new(page, focus)
    /\ run = RunStart
    /\ \E events \in InitLogs :
          /\ store = from_events(events)
          /\ logFile = LogText(events)
    /\ ap = ApIdle
    /\ nAppends = 0
    /\ nFailed = 0
    /\ ld = LdOff
    /\ Tui_new

NextApp ==
    \/ NbTuiNew
    \/ NbEnableRaw
    \/ NbEnterAlt
    \/ NbStart
    \/ Await
    \/ TryEditorNone
    \/ TryEditorTake
    \/ HsKillBackend
    \/ HsEditor
    \/ HsCallback
    \/ HsDraw
    \/ Draw
    \/ HandleEvent
    \/ CheckQuit
    \/ KillBackend
    \/ Unwind

SpecApp == InitApp /\ [][NextApp]_vars

(***************************************************************************)
(* SpecDefault: the application as App::new makes it, TuiState::default()  *)
(* with Page::IssueTable and Focus::IssueTable, run by the same loop.      *)
(***************************************************************************)
InitDefault ==
    /\ InitApp
    /\ app = App_new("IssueTable", "IssueTable")

SpecDefault == InitDefault /\ [][NextApp]_vars

HandshakeOrder == <<"take", "suspend", "editor", "resume", "continuation">>

\* C5: one handshake over a pending editor entry takes the entry, suspends
\* the session, runs the editor, resumes the session and only then invokes
\* the continuation: at every moment the steps done so far are the first
\* steps of that order.
C5_HandshakeOrder == IsPrefix(run.hs, HandshakeOrder)

Returned == run.pc \in {"returned_ok", "returned_err"}

\* C6: on every way out of App::run (Ok after a quit, or an Err from the
\* backend start-up, a draw, the event handler or the editor hand-off) the
\* Tui has been dropped and the terminal is neither in raw mode nor on the
\* alternate screen.
C6_RunLeavesTerminalRestored ==
    Returned => (run.tui = "none" /\ ~term.raw /\ ~term.alt)

\* run returned the error of an enter_raw_mode that had already switched raw
\* mode on when entering the alternate screen failed.
C6_Witness ==
    /\ run.pc = "returned_err"
    /\ run.cause = "EnterAlternateScreen"
    /\ run.tui = "none"

QKey == run.ev.kind = "Key" /\ run.ev.code = "q"

\* C10: should_quit is set only by a 'q' key whose page-level routing
\* returned Continue; a 'q' routed while the filter box has the focus, or on
\* the thread page (which, with the thread in focus, goes back to the table
\* page), is answered with Stop and does not quit.
C10_StopIsNotReinterpreted ==
    /\ app.should_quit => (QKey /\ run.routed.prop = "Continue")
    /\ (run.pc = "check_quit" /\ QKey /\ run.routed.focus = "IssueTableFilter")
          => (run.routed.prop = "Stop" /\ ~app.should_quit)
    /\ (run.pc = "check_quit" /\ QKey /\ run.routed.page = "IssueThread")
          => /\ run.routed.prop = "Stop"
             /\ ~app.should_quit
             /\ run.routed.focus = "IssueThread" => app.page = "IssueTable"

\* a 'q' was typed into the filter box of the table page and consumed there
C10_Witness ==
    /\ run.pc = "check_quit"
    /\ QKey
    /\ run.routed = [page |-> "IssueTable", focus |-> "IssueTableFilter", prop |-> "Stop"]
    /\ ~app.should_quit

\* try_external_editor between the take and its return, the backend it makes
\* included
InHandshake ==
    \/ run.pc \in {"hs_kill", "hs_editor", "hs_callback", "hs_draw"}
    \/ run.pc \in {"nb_new", "nb_raw", "nb_alt", "nb_start"} /\ run.after = "handshake"

AppFrame == <<store, logFile, app.page, app.focus, app.columns>>

HandshakeDone == <<"take", "suspend", "editor", "continuation", "resume">>

\* C11: when the editor hands back no text, no step of the handshake (the
\* take, the teardown, the editor, the continuation of any kind of entry, the
\* new backend, the draw) changes the store, the log file, the page, the
\* focus or the columns; the continuation returns Ok, so the new backend is
\* started, and the handshake hands back a live Tui in raw mode on the
\* alternate screen.
C11_AbortLeavesState ==
    /\ [][(run.pc = "try_editor" \/ InHandshake)
            /\ ~(run.pc = "hs_callback" /\ run.resp.tag = "some")
          => AppFrame' = AppFrame]_vars
    /\ [][(run.pc = "hs_callback" /\ run.resp.tag = "none")
          => (run'.pc = "nb_new" /\ run'.after = "handshake")]_vars
    /\ [](run.pc = "hs_draw" => (run.tui = "live" /\ term.raw /\ term.alt))

\* a handshake over a comment entry whose editor gave no text has returned
C11_Witness ==
    /\ run.pc = "draw"
    /\ run.hs = HandshakeDone
    /\ run.resp.tag = "none"
    /\ run.cb.kind = "comment"
    /\ run.tui = "live"
    /\ term.raw

EditorFailed == run.cause = "editor"

\* C12 as stated: after the editor has failed the handshake goes on to
\* resume the session (a new backend in raw mode, its task started), and the
\* failure does not end App::run.
C12_EditorFailureResumes ==
    EditorFailed => (InHandshake /\ run.pc # "unwinding" /\ ~Returned)

\* C12, amended: an editor failure is returned by try_external_editor and, by
\* the `?` of App::run, by run itself.  No backend is made again: from the
\* failure on no Tui exists and the terminal stays out of raw mode and off
\* the alternate screen; the entry is gone from the slot and its
\* continuation is not invoked.
C12_EditorFailureEndsRun ==
    EditorFailed =>
        /\ run.pc \in {"unwinding", "returned_err"}
        /\ run.tui = "none"
        /\ ~term.raw /\ ~term.alt
        /\ app.entry = NoEntry
        /\ run.hs = <<"take", "suspend", "editor">>

\* run has returned the error of the editor
C12_Witness ==
    /\ run.pc = "returned_err"
    /\ EditorFailed
    /\ run.cb.kind = "new_issue"

\* C13: in an iteration of the main loop the pending-editor check is the
\* first thing done with a received event and is done once: the event is
\* drawn and routed only after the check has returned, with the slot empty,
\* and the check is not entered again before the next event.  Entries are
\* queued only while an event is routed, so an entry queued by one event is
\* taken by the check of the next event, before that event is drawn or
\* routed.
C13_CheckOncePerIteration ==
    /\ [](run.pc \in {"draw", "handle"} => app.entry = NoEntry)
    /\ [][run.pc = "next" => run'.pc = "try_editor"]_vars
    /\ [][run'.pc = "try_editor" => run.pc = "next"]_vars
    /\ [][run'.pc = "draw" =>
            \/ run.pc = "try_editor" /\ app.entry = NoEntry
            \/ run.pc = "hs_draw"]_vars
    /\ [][run'.pc = "handle" => run.pc = "draw"]_vars
    /\ [][(app.entry = NoEntry /\ app'.entry # NoEntry) => run.pc = "handle"]_vars
    /\ [][(run.pc = "try_editor" /\ app.entry # NoEntry) =>
            (app'.entry = NoEntry /\ run'.cb = app.entry /\ run'.pc = "hs_kill")]_vars

\* 'c' was routed and queued the columns entry; the next event, 'k', has
\* arrived, the handshake is over and 'k' is about to be drawn
C13_Witness ==
    /\ run.pc = "draw"
    /\ run.ev.code = "k"
    /\ run.hs = HandshakeDone
    /\ run.cb.kind = "columns"
    /\ run.routed.prop = "Stop"
    /\ app.entry = NoEntry

\* The entry the arm of a key queues with edit(), for the keys that have one.
EditKeys == {"c", "n", "a"}

QueuedBy(key, a) ==
    CASE key = "c" -> [kind |-> "columns", issue_id |-> 0]
      [] key = "n" -> [kind |-> "new_issue", issue_id |-> 0]
      [] key = "a" -> [kind |-> "comment", issue_id |-> a.thread.issue_id]

\* The places of the loop between the routing of an event and the check of
\* the next one.
BetweenEvents == {"check_quit", "next", "try_editor"}

\* C37: the slot is empty whenever an event is routed, and routing leaves
\* it empty or holding the one entry that the arm of the pressed key
\* queues, so that edit() never displaces an entry; an entry in the slot
\* stays as it is until the check of the next iteration takes it, which is
\* the next thing the loop does with the slot, before the next event is drawn
\* or routed.
C37_OneEntryPerEvent ==
    /\ [][run.pc = "handle" =>
            /\ app.entry = NoEntry
            /\ app'.entry # NoEntry =>
                  /\ keypress(run.ev) \in EditKeys
                  /\ app'.entry = QueuedBy(keypress(run.ev), app)]_vars
    /\ [](app.entry # NoEntry => run.pc \in BetweenEvents)
    /\ [][app.entry # NoEntry =>
            \/ app'.entry = app.entry
            \/ /\ run.pc = "try_editor"
               /\ app'.entry = NoEntry
               /\ run'.cb = app.entry
               /\ run'.hs = <<"take">>]_vars
    /\ [][(app.entry # NoEntry /\ run.pc = "try_editor") => app'.entry = NoEntry]_vars

\* 'n' was routed and queued its entry; the next event is 'c', and the check
\* made for it has taken the entry of 'n' with 'c' neither drawn nor routed
C37_Witness ==
    /\ run.pc = "hs_kill"
    /\ run.ev.code = "c"
    /\ run.cb.kind = "new_issue"
    /\ run.routed.prop = "Stop"
    /\ app.entry = NoEntry

(***************************************************************************)
(* SpecSlot: ExternalEditor by itself.  The handlers call edit() and drop  *)
(* what it returns; try_external_editor calls take() and, with an entry in *)
(* hand, runs the editor and then the entry's continuation, a FnOnce that  *)
(* the call consumes.  An editor that fails drops the entry unrun.         *)
(***************************************************************************)
EntryKinds == {"columns", "new_issue", "comment"}

\* ExternalEditor::edit as the handlers call it: the new entry is stored,
\* the old one is returned and dropped by the caller
SlotEdit(kind) ==
    /\ ed.taken = 0
    /\ ed.made < MaxEdits
    /\ ed' = [ed EXCEPT !.entry = ed.made + 1,
                        !.made = ed.made + 1,
                        !.kinds = Append(@, kind),
                        !.op = "edit",
                        !.ret = ed.entry,
                        !.returned = IF ed.entry = 0 THEN @ ELSE @ \cup {ed.entry},
                        !.invoked = Append(@, 0)]
    /\ UNCHANGED notSlot

\* Mutant: take() hands out the entry and keeps it in the slot.
SlotTake_LeavesEntry ==
    /\ ed.taken = 0
    /\ ed' = [ed EXCEPT !.op = "take", !.ret = ed.entry, !.taken = ed.entry]
    /\ UNCHANGED notSlot

\* ExternalEditor::take, called by try_external_editor: self.entry.take()
SlotTake ==
    /\ ed.taken = 0
    /\ ed' = [ed EXCEPT !.entry = 0, !.op = "take", !.ret = ed.entry, !.taken = ed.entry]
    /\ UNCHANGED notSlot

\* try_external_editor: the editor fails, `?` drops the callback
SlotEditorFails ==
    /\ ed.taken # 0
    /\ ed' = [ed EXCEPT !.taken = 0, !.op = "dropped", !.failed = @ \cup {ed.taken}]
    /\ UNCHANGED notSlot

\* try_external_editor: callback(self, result)
SlotCallback ==
    /\ ed.taken # 0
    /\ ed' = [ed EXCEPT !.taken = 0, !.op = "callback", !.invoked[ed.taken] = @ + 1]
    /\ UNCHANGED notSlot

InitSlot ==
    /\ WidgetsOff
    /\ ed = ExternalEditor_default
    /\ sess = SessOff
    /\ ph = PanicHookOff
    /\ store = Issues_default
    /\ logFile = <<>>
    /\ ap = ApIdle
    /\ nAppends = 0
    /\ nFailed = 0
    /\ ld = LdOff
    /\ Tui_new
    /\ AppOff

NextSlot ==
    \/ \E kind \in EntryKinds : SlotEdit(kind)
    \/ SlotTake
    \/ SlotEditorFails
    \/ SlotCallback

SpecSlot == InitSlot /\ [][NextSlot]_vars

Made == 1..ed.made

\* C14: the slot holds at most one entry, the last one made: every other
\* entry made so far was returned by a later edit(), or is in the hands of
\* the handshake, or was dropped by a failed editor, or had its continuation
\* invoked.  edit() stores the new entry and returns the one that was there;
\* take() returns the one that was there and leaves the slot empty.  The
\* continuation of a returned entry is never invoked, and no continuation is
\* invoked twice.
C14_SlotHoldsOne ==
    /\ [](/\ ed.entry \in {0, ed.made}
          /\ \A n \in Made :
                \/ n = ed.entry /\ n # ed.taken /\ n \notin ed.returned \cup ed.failed
                                /\ ed.invoked[n] = 0
                \/ n # ed.entry /\ (n = ed.taken \/ n \in ed.returned \cup ed.failed
                                    \/ ed.invoked[n] = 1)
          /\ \A n \in ed.returned : ed.invoked[n] = 0 /\ n # ed.taken
          /\ \A n \in Made : ed.invoked[n] <= 1)
    /\ [][ed'.made # ed.made =>
            (ed'.entry = ed'.made /\ ed'.ret = ed.entry /\ ed'.made = ed.made + 1)]_vars
    /\ [][ed'.op = "take" => (ed'.ret = ed.entry /\ ed'.entry = 0)]_vars

\* three entries were made: the first was returned by the second edit() and
\* never run, the second was taken and run once, the third is in the slot
C14_Witness ==
    /\ ed.made = 3
    /\ ed.returned = {1}
    /\ ed.invoked = <<0, 1, 0>>
    /\ ed.entry = 3

FileLines == lines(logFile)

\* line j of the file is not blank and does not decode
Undecodable(j) ==
    LET line == trim(FileLines[j]) IN line # <<>> /\ ~from_str(line).ok

\* C15 as stated: a failed load carries the position of the line and the
\* line as it stands in the file.
C15_ErrorCarriesRawLine ==
    (ld.pc = "done" /\ ~ld.res.ok) =>
        /\ ld.res.line \in 1..Len(FileLines)
        /\ ld.res.content = FileLines[ld.res.line]

\* C15, amended: from_jsonl_file fails exactly when some non-blank line does
\* not decode, whatever valid records come before or after it; the error
\* carries the 1-based position, blank lines counted, of the first such line
\* and the content of that line with the whitespace around it trimmed.
C15_FirstBadLineIsFatal ==
    ld.pc = "done" =>
        /\ ld.res.ok <=> ~(\E j \in 1..Len(FileLines) : Undecodable(j))
        /\ ~AllValid(ld.items) => ~ld.res.ok
        /\ ~ld.res.ok =>
              /\ ld.res.line \in 1..Len(FileLines)
              /\ Undecodable(ld.res.line)
              /\ \A j \in 1..(ld.res.line - 1) : ~Undecodable(j)
              /\ ld.res.content = trim(FileLines[ld.res.line])

\* a blank line, a valid record, then a padded line that does not decode:
\* the load fails at line 3 or later and carries the line without its padding
C15_Witness ==
    /\ ld.pc = "done"
    /\ ~ld.res.ok
    /\ Len(ld.items) = 2
    /\ ld.items[1].valid
    /\ ld.res.line >= 3
    /\ trim(FileLines[1]) = <<>>
    /\ ld.res.content # FileLines[ld.res.line]

\* C16: the id the new-issue continuation gets from next_issue_id is 1 on a
\* store without issues and otherwise the largest id of the store plus one,
\* whatever gaps the ids have: it is strictly greater than every id of the
\* store, so the issue it creates overwrites none.
C16_NextIdAboveAll ==
    (run.pc = "hs_callback" /\ run.cb.kind = "new_issue" /\ run.resp.tag = "some") =>
        \A next_id \in next_issue_id(store) :
            /\ next_id.ok
            /\ next_id.id = IF DOMAIN store.issues = {} THEN 1
                            ELSE Max(DOMAIN store.issues) + 1
            /\ \A k \in DOMAIN store.issues : next_id.id > k

\* an append_to_log of a record of this type has returned Ok: the store is
\* ap.preStore with the record applied
Applied(type) == ap.result = "ok" /\ ap.event.type = type

OtherIssuesKept(id) ==
    /\ DOMAIN store.issues = DOMAIN ap.preStore.issues \cup {id}
    /\ \A k \in DOMAIN ap.preStore.issues \ {id} : store.issues[k] = ap.preStore.issues[k]

\* C17: after apply_event(IssueCreated(i)) the store's issue at i.id is i,
\* field for field, whatever was stored there before (last write wins); every
\* other issue and every comment list, that of i.id too, is as it was.
C17_CreateReplaces ==
    Applied("IssueCreated") =>
        LET i == ap.event.issue IN
        /\ i.id \in DOMAIN store.issues
        /\ store.issues[i.id] = i
        /\ OtherIssuesKept(i.id)
        /\ store.comments = ap.preStore.comments

\* an issue was created over a stored one that differs from it
C17_Witness ==
    /\ Applied("IssueCreated")
    /\ ap.event.issue.id \in DOMAIN ap.preStore.issues
    /\ ap.preStore.issues[ap.event.issue.id] # ap.event.issue
    /\ store.issues[ap.event.issue.id].priority = PriorityHigh

PreComments(p) ==
    IF p \in DOMAIN ap.preStore.comments THEN ap.preStore.comments[p] ELSE <<>>

\* C18: after apply_event(CommentAdded(c)) the list of c.parent_issue is the
\* list it was (empty when there was none, also when the store has no such
\* issue) with c at its end, and nothing else has changed.  Over every step
\* of a running store each comment list stays and is a prefix of what it
\* becomes.  (A load that fails yields no store.)
C18_CommentsOnlyGrow ==
    /\ [](Applied("CommentAdded") =>
            LET c == ap.event.comment
                p == c.parent_issue IN
            /\ DOMAIN store.comments = DOMAIN ap.preStore.comments \cup {p}
            /\ store.comments[p] = Append(PreComments(p), c)
            /\ \A k \in DOMAIN ap.preStore.comments \ {p} :
                  store.comments[k] = ap.preStore.comments[k]
            /\ store.issues = ap.preStore.issues)
    /\ [][ap'.pc # "load_failed" =>
            \A p \in DOMAIN store.comments :
               /\ p \in DOMAIN store'.comments
               /\ IsPrefix(store.comments[p], store'.comments[p])]_vars

\* a second, different comment was added to the list of an id no issue has
C18_Witness ==
    /\ Applied("CommentAdded")
    /\ ap.event.comment.parent_issue \notin DOMAIN store.issues
    /\ Len(store.comments[ap.event.comment.parent_issue]) = 2
    /\ store.comments[ap.event.comment.parent_issue][1] # ap.event.comment
    /\ store.comments[ap.event.comment.parent_issue][2] = ap.event.comment

\* C19: apply_event(StatusChanged) or apply_event(PriorityChanged) with an id
\* the store does not have returns with the projection as it was; with an id
\* it has, the issue at that id differs from what it was in status
\* (respectively priority) only, and every other issue and every comment
\* list is as it was.
C19_ChangeTouchesOneField ==
    (Applied("StatusChanged") \/ Applied("PriorityChanged")) =>
        LET id == ap.event.issue_id
            pre == ap.preStore IN
        IF id \notin DOMAIN pre.issues THEN store = pre
        ELSE /\ store.issues[id] =
                  IF ap.event.type = "StatusChanged"
                  THEN [pre.issues[id] EXCEPT !.status = ap.event.status]
                  ELSE [pre.issues[id] EXCEPT !.priority = ap.event.priority]
             /\ OtherIssuesKept(id)
             /\ store.comments = pre.comments

\* a status change for an id that a store of one issue does not have
C19_Witness ==
    /\ Applied("StatusChanged")
    /\ ap.event.status = StatusClosed
    /\ DOMAIN ap.preStore.issues # {}
    /\ ap.event.issue_id \notin DOMAIN ap.preStore.issues
    /\ store = ap.preStore

(***************************************************************************)
(* SpecExit: one Tui, with mouse capture and bracketed paste on or off,    *)
(* on which enter_raw_mode is called once and exit_raw_mode after it, one  *)
(* call after the other, each a step per terminal operation.  Every        *)
(* operation may fail; its `?` ends the call with the error.  sess.ops     *)
(* counts the cleanup operations that were done.                           *)
(***************************************************************************)
SessReturn(res, acted, queried) ==
    [sess EXCEPT !.pc = "idle",
                 !.results = Append(@, [res |-> res, acted |-> acted, queried |-> queried]),
                 !.calls = Append(@, IF res = "ok" THEN "exit_ok" ELSE "exit_err")]

\* enter_raw_mode returns an Err
SessEnterErr == [sess EXCEPT !.pc = "idle", !.calls = Append(@, "enter_err")]

\* the terminal as a whole
Snapshot(t, modes) ==
    [raw |-> t.raw, alt |-> t.alt, hidden |-> modes.hidden, mouse |-> modes.mouse,
     paste |-> modes.paste]

\* tui.enter_raw_mode()
SessEnterCall ==
    /\ sess.pc = "new"
    /\ sess' = [sess EXCEPT !.pc = "e_raw", !.enters = @ + 1]
    /\ UNCHANGED term
    /\ UNCHANGED notExit

\* tui.resume(), after a suspend(): self.enter_raw_mode()
SessResume ==
    /\ sess.pc = "idle"
    /\ sess.results # <<>>
    /\ sess.enters < MaxEnters
    /\ sess' = [sess EXCEPT !.pc = "e_raw", !.enters = @ + 1,
                            !.enabled = [mouse |-> FALSE, paste |-> FALSE]]
    /\ UNCHANGED term
    /\ UNCHANGED notExit

\* enter_raw_mode: crossterm::terminal::enable_raw_mode()
SessEnableRaw ==
    /\ sess.pc = "e_raw"
    /\ \/ /\ term' = [term EXCEPT !.raw = TRUE]
          /\ sess' = [sess EXCEPT !.pc = "e_alt"]
       \/ /\ UNCHANGED term
          /\ sess' = SessEnterErr
    /\ UNCHANGED notExit

\* enter_raw_mode: execute!(stderr, EnterAlternateScreen, cursor::Hide); of
\* a write that failed any part may have reached the terminal
SessEnterAlt ==
    /\ sess.pc = "e_alt"
    /\ \/ /\ term' = [term EXCEPT !.alt = TRUE]
          /\ sess' = [sess EXCEPT !.pc = "e_mouse", !.modes.hidden = TRUE]
       \/ /\ \E alt \in {term.alt, TRUE} : term' = [term EXCEPT !.alt = alt]
          /\ \E hidden \in {sess.modes.hidden, TRUE} :
                sess' = [SessEnterErr EXCEPT !.modes.hidden = hidden]
    /\ UNCHANGED notExit

\* enter_raw_mode: if self.mouse { execute!(stderr, EnableMouseCapture) }
SessEnableMouse ==
    /\ sess.pc = "e_mouse"
    /\ IF sess.mouse
       THEN \/ sess' = [sess EXCEPT !.pc = "e_paste", !.modes.mouse = TRUE,
                                    !.enabled.mouse = TRUE]
            \/ \E on \in {sess.modes.mouse, TRUE} :
                  sess' = [SessEnterErr EXCEPT !.modes.mouse = on]
       ELSE sess' = [sess EXCEPT !.pc = "e_paste"]
    /\ UNCHANGED term
    /\ UNCHANGED notExit

\* enter_raw_mode: if self.paste { execute!(stderr, EnableBracketedPaste) }; Ok(())
SessEnablePaste ==
    /\ sess.pc = "e_paste"
    /\ LET done(modes, enabled) ==
              [sess EXCEPT !.pc = "idle", !.entered = TRUE, !.modes = modes,
                           !.enabled = enabled, !.calls = Append(@, "enter_ok"),
                           !.snaps = Append(@, Snapshot(term, modes))]
       IN IF sess.paste
          THEN \/ sess' = done([sess.modes EXCEPT !.paste = TRUE],
                               [sess.enabled EXCEPT !.paste = TRUE])
               \/ \E on \in {sess.modes.paste, TRUE} :
                     sess' = [SessEnterErr EXCEPT !.modes.paste = on]
          ELSE sess' = done(sess.modes, sess.enabled)
    /\ UNCHANGED term
    /\ UNCHANGED notExit

\* tui.exit_raw_mode(), which is also tui.suspend()
SessExitCall ==
    /\ sess.pc = "idle"
    /\ Len(sess.results) < MaxExitCalls
    /\ sess' = [sess EXCEPT !.pc = "x_query"]
    /\ UNCHANGED term
    /\ UNCHANGED notExit

\* Mutant: the cleanup is done whatever the raw-mode status is.
SessQuery_AlwaysActs ==
    /\ sess.pc = "x_query"
    /\ \/ sess' = SessReturn("err", FALSE, FALSE)
       \/ sess' = [sess EXCEPT !.pc = "x_flush"]
    /\ UNCHANGED term
    /\ UNCHANGED notExit

\* exit_raw_mode: if crossterm::terminal::is_raw_mode_enabled()? { .. } Ok(())
SessQuery ==
    /\ sess.pc = "x_query"
    /\ \/ sess' = SessReturn("err", FALSE, FALSE)
       \/ sess' = IF term.raw THEN [sess EXCEPT !.pc = "x_flush"]
                  ELSE SessReturn("ok", FALSE, TRUE)
    /\ UNCHANGED term
    /\ UNCHANGED notExit

\* exit_raw_mode: self.flush()?
SessFlush ==
    /\ sess.pc = "x_flush"
    /\ \/ sess' = [sess EXCEPT !.pc = "x_paste", !.ops.flush = @ + 1]
       \/ sess' = SessReturn("err", TRUE, TRUE)
    /\ UNCHANGED term
    /\ UNCHANGED notExit

\* exit_raw_mode: if self.paste { execute!(stderr, DisableBracketedPaste)? }
SessDisablePaste ==
    /\ sess.pc = "x_paste"
    /\ IF sess.paste
       THEN \/ sess' = [sess EXCEPT !.pc = "x_mouse", !.ops.paste = @ + 1,
                                    !.modes.paste = FALSE]
            \/ \E on \in {sess.modes.paste, FALSE} :
                  sess' = [SessReturn("err", TRUE, TRUE) EXCEPT !.modes.paste = on]
       ELSE sess' = [sess EXCEPT !.pc = "x_mouse"]
    /\ UNCHANGED term
    /\ UNCHANGED notExit

\* Mutant: mouse capture is disabled when bracketed paste is configured.
SessDisableMouse_TestsPaste ==
    /\ sess.pc = "x_mouse"
    /\ IF sess.paste
       THEN \/ sess' = [sess EXCEPT !.pc = "x_leave", !.ops.mouse = @ + 1,
                                    !.modes.mouse = FALSE]
            \/ \E on \in {sess.modes.mouse, FALSE} :
                  sess' = [SessReturn("err", TRUE, TRUE) EXCEPT !.modes.mouse = on]
       ELSE sess' = [sess EXCEPT !.pc = "x_leave"]
    /\ UNCHANGED term
    /\ UNCHANGED notExit

\* exit_raw_mode: if self.mouse { execute!(stderr, DisableMouseCapture)? }
SessDisableMouse ==
    /\ sess.pc = "x_mouse"
    /\ IF sess.mouse
       THEN \/ sess' = [sess EXCEPT !.pc = "x_leave", !.ops.mouse = @ + 1,
                                    !.modes.mouse = FALSE]
            \/ \E on \in {sess.modes.mouse, FALSE} :
                  sess' = [SessReturn("err", TRUE, TRUE) EXCEPT !.modes.mouse = on]
       ELSE sess' = [sess EXCEPT !.pc = "x_leave"]
    /\ UNCHANGED term
    /\ UNCHANGED notExit

\* exit_raw_mode: execute!(stderr, LeaveAlternateScreen, cursor::Show)?
SessLeaveAlt ==
    /\ sess.pc = "x_leave"
    /\ \/ /\ term' = [term EXCEPT !.alt = FALSE]
          /\ sess' = [sess EXCEPT !.pc = "x_raw", !.ops.leave = @ + 1,
                                  !.modes.hidden = FALSE]
       \/ /\ \E alt \in {term.alt, FALSE} : term' = [term EXCEPT !.alt = alt]
          /\ \E hidden \in {sess.modes.hidden, FALSE} :
                sess' = [SessReturn("err", TRUE, TRUE) EXCEPT !.modes.hidden = hidden]
    /\ UNCHANGED notExit

\* exit_raw_mode: crossterm::terminal::disable_raw_mode()?
SessDisableRaw ==
    /\ sess.pc = "x_raw"
    /\ \/ /\ term' = [term EXCEPT !.raw = FALSE]
          /\ sess' = [SessReturn("ok", TRUE, TRUE) EXCEPT !.ops.raw = @ + 1]
       \/ /\ UNCHANGED term
          /\ sess' = SessReturn("err", TRUE, TRUE)
    /\ UNCHANGED notExit

InitExit ==
    /\ \E mouse \in BOOLEAN : \E paste \in BOOLEAN :
          sess = [SessOff EXCEPT !.mouse = mouse, !.paste = paste]
    /\ ed = ExternalEditor_default
    /\ ph = PanicHookOff
    /\ WidgetsOff
    /\ store = Issues_default
    /\ logFile = <<>>
    /\ ap = ApIdle
    /\ nAppends = 0
    /\ nFailed = 0
    /\ ld = LdOff
    /\ Tui_new
    /\ AppOff

NextExit ==
    \/ SessEnterCall
    \/ SessEnableRaw
    \/ SessEnterAlt
    \/ SessEnableMouse
    \/ SessEnablePaste
    \/ SessExitCall
    \/ SessQuery
    \/ SessFlush
    \/ SessDisablePaste
    \/ SessDisableMouse
    \/ SessLeaveAlt
    \/ SessDisableRaw

SpecExit == InitExit /\ [][NextExit]_vars

\* The same Tui when suspend() and resume() are called on it as well.
NextSuspend ==
    \/ SessEnterCall
    \/ SessResume
    \/ SessEnableRaw
    \/ SessEnterAlt
    \/ SessEnableMouse
    \/ SessEnablePaste
    \/ SessExitCall
    \/ SessQuery
    \/ SessFlush
    \/ SessDisablePaste
    \/ SessDisableMouse
    \/ SessLeaveAlt
    \/ SessDisableRaw

SpecSuspend == InitExit /\ [][NextSuspend]_vars

CleanupOnce ==
    [flush |-> 1, paste |-> IF sess.paste THEN 1 ELSE 0,
     mouse |-> IF sess.mouse THEN 1 ELSE 0, leave |-> 1, raw |-> 1]

AllOff == [raw |-> FALSE, alt |-> FALSE, hidden |-> FALSE, mouse |-> FALSE, paste |-> FALSE]

\* the modes enter_raw_mode establishes on this Tui
Established ==
    [raw |-> TRUE, alt |-> TRUE, hidden |-> TRUE, mouse |-> sess.mouse, paste |-> sess.paste]

LastCall == IF sess.calls = <<>> THEN "none" ELSE sess.calls[Len(sess.calls)]

\* the last enter_raw_mode that returned, returned Ok
LastEnterOk ==
    \E i \in 1..Len(sess.calls) :
       /\ sess.calls[i] = "enter_ok"
       /\ \A j \in (i + 1)..Len(sess.calls) : sess.calls[j] \notin {"enter_ok", "enter_err"}

\* a step that disables a capability finds it configured and, after an enter
\* that returned Ok, enabled by that enter
DisablesOnlyEnabled ==
    /\ (sess'.ops.mouse > sess.ops.mouse) =>
          (sess.mouse /\ (LastEnterOk => sess.enabled.mouse))
    /\ (sess'.ops.paste > sess.ops.paste) =>
          (sess.paste /\ (LastEnterOk => sess.enabled.paste))

PhInit ==
    /\ ph.pc = "main"
    /\ ph' = [ph EXCEPT !.hook = <<"restore_tui">> \o @, !.pc = "ready"]
    /\ UNCHANGED term
    /\ UNCHANGED notPanic

\* the program between panics: a Tui enters or leaves raw mode
PhTerminal ==
    /\ ph.pc = "ready"
    /\ \E raw \in BOOLEAN : \E alt \in BOOLEAN :
          /\ term' = [raw |-> raw, alt |-> alt]
          /\ term' # term
    /\ UNCHANGED ph
    /\ UNCHANGED notPanic

\* a panic: the installed hook is called
PhPanic ==
    /\ ph.pc = "ready"
    /\ ph.panics < MaxPanics
    /\ ph' = [ph EXCEPT !.pc = "h_raw", !.trace = <<>>, !.restore = "none",
                        !.panics = @ + 1]
    /\ UNCHANGED term
    /\ UNCHANGED notPanic

\* Mutant: a restoration that fails ends the hook.
PhDisableRaw_ErrReturns ==
    /\ ph.pc = "h_raw"
    /\ \/ /\ term' = [term EXCEPT !.raw = FALSE]
          /\ ph' = [ph EXCEPT !.pc = "h_leave", !.trace = Append(@, "disable_raw_mode")]
       \/ /\ UNCHANGED term
          /\ ph' = [ph EXCEPT !.pc = "ready", !.restore = "err",
                              !.trace = Append(@, "disable_raw_mode")]
    /\ UNCHANGED notPanic

\* the hook: let _ = restore_tui();  restore_tui: disable_raw_mode()?
PhDisableRaw ==
    /\ ph.pc = "h_raw"
    /\ \/ /\ term' = [term EXCEPT !.raw = FALSE]
          /\ ph' = [ph EXCEPT !.pc = "h_leave", !.trace = Append(@, "disable_raw_mode")]
       \/ /\ UNCHANGED term
          /\ ph' = [ph EXCEPT !.pc = "h_prev", !.restore = "err",
                              !.trace = Append(@, "disable_raw_mode")]
    /\ UNCHANGED notPanic

\* restore_tui: execute!(stdout(), LeaveAlternateScreen)?; Ok(())
PhLeaveAlt ==
    /\ ph.pc = "h_leave"
    /\ \/ /\ term' = IF ph.stdout_tty THEN [term EXCEPT !.alt = FALSE] ELSE term
          /\ ph' = [ph EXCEPT !.pc = "h_prev", !.restore = "ok",
                              !.trace = Append(@, "LeaveAlternateScreen")]
       \/ /\ \E alt \in {term.alt, ph.stdout_tty => term.alt} :
                term' = [term EXCEPT !.alt = alt]
          /\ ph' = [ph EXCEPT !.pc = "h_prev", !.restore = "err",
                              !.trace = Append(@, "LeaveAlternateScreen")]
    /\ UNCHANGED notPanic

\* the hook: original_hook(panic_info), and the hook returns
PhOriginal ==
    /\ ph.pc = "h_prev"
    /\ ph' = [ph EXCEPT !.pc = "ready", !.trace = Append(@, ph.hook[2]),
                        !.log = Append(@, ph.restore)]
    /\ UNCHANGED term
    /\ UNCHANGED notPanic

InitPanic ==
    /\ \E tty \in BOOLEAN : ph = [PanicHookOff EXCEPT !.stdout_tty = tty]
    /\ WidgetsOff
    /\ ed = ExternalEditor_default
    /\ sess = SessOff
    /\ store = Issues_default
    /\ logFile = <<>>
    /\ ap = ApIdle
    /\ nAppends = 0
    /\ nFailed = 0
    /\ ld = LdOff
    /\ Tui_new
    /\ AppOff

NextPanic ==
    \/ PhInit
    \/ PhTerminal
    \/ PhPanic
    \/ PhDisableRaw
    \/ PhLeaveAlt
    \/ PhOriginal

\* The panicking thread runs its hook to the end.
SpecPanic ==
    InitPanic /\ [][NextPanic]_vars /\ WF_vars(PhDisableRaw \/ PhLeaveAlt \/ PhOriginal)

\* the hook is running
InHook == ph.pc \in {"h_raw", "h_leave", "h_prev"}

\* the last thing the hook did was to call the hook installed before it
PreviousHookCalled == ph.trace # <<>> /\ ph.trace[Len(ph.trace)] = "original"

\* C22: in every panic the installed hook first attempts the restoration
\* (disable_raw_mode, and LeaveAlternateScreen when that succeeded) and only
\* then calls the hook that was installed before it; it calls that hook
\* last, once, and whatever the restoration gave, so a hook that has begun
\* always gets to it.
C22_RestoreThenPreviousHook ==
    /\ [](ph.panics > 0 =>
            /\ \A i \in 1..Len(ph.trace) :
                  ph.trace[i] = "original" =>
                     /\ i = Len(ph.trace)
                     /\ i >= 2
                     /\ ph.trace[1] = "disable_raw_mode"
                     /\ ph.restore # "none"
                     /\ (ph.restore = "ok" =>
                           ph.trace = <<"disable_raw_mode", "LeaveAlternateScreen", "original">>)
            /\ (~InHook => PreviousHookCalled))
    /\ (InHook ~> (ph.pc = "ready" /\ PreviousHookCalled))

\* disable_raw_mode failed, the terminal is still in raw mode, and the hook
\* installed before was called all the same
C22_Witness ==
    /\ ph.pc = "ready"
    /\ ph.restore = "err"
    /\ ph.trace = <<"disable_raw_mode", "original">>
    /\ term.raw

(***************************************************************************)
(* Properties of the backend's task.                                       *)
(***************************************************************************)
\* C23: once kill_backend has returned, the task of the backend it was
\* given reads no more terminal input and no event of it reaches the
\* application.
C23_KillStopsEventHandler ==
    ~tui.alive => (~obs.readAfterKill /\ chan = <<>>)

\* the channel is a queue: it changes by losing its head or by gaining
\* one event at its end
ChanIsQueue ==
    chan' # chan =>
       \/ (chan # <<>> /\ chan' = Tail(chan))
       \/ (Len(chan') = Len(chan) + 1 /\ SubSeq(chan', 1, Len(chan)) = chan)

\* C24: next() gives the events in the order they were sent, waits while
\* the channel is empty and a sender exists, and gives None once no sender
\* is left, which is so once stop() has returned, the tasks are over and
\* the queue is drained.
C24_NoneOnceStoppedAndDrained ==
    /\ [][ChanIsQueue]_vars
    /\ [](obs.gotNone => Senders = {})
    /\ []((obs.stopped /\ caller.pc = "idle" /\ chan = <<>>
            /\ \A r \in Runs : task[r].pc \in {"none", "finished"}) => Senders = {})

\* the event a step adds to the channel is the last of chan'
Sent == chan'[Len(chan')]

Sends == Len(chan') = Len(chan) + 1

\* C25: the first event a run sends is Init: every event of a run in the
\* channel was sent after that run's Init, and a Tick, a Render or an input
\* event is sent only by a run that has sent its Init.
C25_InitIsFirst ==
    /\ [](\A r \in Runs : task[r].first \in {"none", "Init"})
    /\ [](\A i \in 1..Len(chan) : task[chan[i].run].first = "Init")
    /\ [][Sends => (IF Sent.kind = "Init" THEN task[Sent.run].first = "none"
                     ELSE task[Sent.run].first = "Init")]_vars

\* the run sent its Init, which next() has given, and then a Tick, which is
\* in the channel
C25_Witness ==
    /\ task[1].first = "Init"
    /\ chan # <<>> /\ chan[1].kind = "Tick" /\ chan[1].run = 1

\* what one firing is to put in the channel: "none" for nothing
Expected(src) ==
    IF src.tag = "timer" THEN src.type
    ELSE IF src.tag = "err" THEN "Error"
    ELSE IF src.tag = "ok" /\ src.type = "Key" THEN (IF src.kind = "Press" THEN "Key" ELSE "none")
    ELSE IF src.tag = "ok" THEN src.type
    ELSE "none"

\* a branch of select! is taken: nothing is sent yet
Fires(r) == task[r].pc = "polling" /\ task'[r].pc = "body"

\* the body of the branch taken is left
BodyDone(r) == task[r].pc = "body" /\ task'[r].pc # "body"

OneEventPerFiring(r) ==
    /\ Fires(r) => (chan' = chan /\ task'[r].ev = Expected(task'[r].src))
    /\ BodyDone(r) =>
          IF Expected(task[r].src) = "none"
          THEN chan' = chan /\ task'[r].pc = "polling"
          ELSE tui.alive =>
                  /\ chan' = Append(chan, [kind |-> Expected(task[r].src), run |-> r,
                                           stale |-> FALSE])
                  /\ task'[r].pc = "polling"

\* C26: a firing of the select! puts exactly one event in the channel, the
\* one of its source: Tick or Render for a timer, Error for an item that
\* did not decode, the event itself for an input event, and nothing for a
\* key event that is not a press (and nothing when the input stream ends).
\* After each of them, Error included, the task is back at its select!.
\* Nothing is sent but Init and the event of a firing.
C26_OneEventPerFiring ==
    /\ [][\A r \in Runs \ {0} : OneEventPerFiring(r)]_vars
    /\ [][Sends => \E r \in Runs \ {0} :
                      /\ Sent.run = r
                      /\ \/ task[r].pc = "init" /\ Sent.kind = "Init"
                         \/ BodyDone(r)]_vars
    /\ [](\A r \in Runs : task[r].pc = "body" => task[r].ev = Expected(task[r].src))

\* an Error was sent and waits in the channel, and the task has gone round
\* its loop and taken a key press, which it is about to send
C26_Witness ==
    /\ chan # <<>> /\ chan[1].kind = "Error"
    /\ task[1].pc = "body"
    /\ task[1].src = ReaderItem("ok", "Key", "Press")
    /\ task[1].ev = "Key"

\* the event the task is about to send, "none" when it is not at a send
InHand(r) ==
    IF task[r].pc = "init" THEN "Init"
    ELSE IF task[r].pc = "body" THEN task[r].ev
    ELSE "none"

\* the first send after the receiver is gone ends the task with an Err
FailedSendIsFatal(r) ==
    (~tui.alive /\ InHand(r) # "none" /\ task'[r] # task[r]) =>
       /\ task'[r].pc = "finished"
       /\ task'[r].res = "err"
       /\ task'[r].ev = InHand(r)
       /\ chan' = chan

\* C27: a send that fails is fatal for the task.  Whatever event it has in
\* hand (Init or the event of any firing), its first send after the receiver
\* was dropped ends the task with an error; a task that ended so stays
\* ended, and nothing enters the channel once the receiver is gone.  An
\* error is returned for no other reason.
C27_FailedSendIsFatal ==
    /\ [][\A r \in Runs \ {0} : FailedSendIsFatal(r)]_vars
    /\ [][\A r \in Runs : task[r].res = "err" => task'[r] = task[r]]_vars
    /\ [](\A r \in Runs : task[r].res = "err" => (task[r].pc = "finished" /\ ~tui.alive))
    /\ [](~tui.alive => chan = <<>>)

\* the Tui was dropped while the task had a paste in hand: the send failed
\* and the task is over, with an error
C27_Witness ==
    /\ ~tui.alive
    /\ task[1].pc = "finished"
    /\ task[1].res = "err"
    /\ task[1].ev = "Paste"
    /\ task[1].src = ReaderItem("ok", "Paste", "none")

\* handle_event is about to route the event to the handler of this page
\* with this focus
Routing(page, focus) ==
    /\ run.pc = "handle"
    /\ app.page = page
    /\ app.focus = focus

\* the handler returned this verdict and the loop goes on
Verdict(prop) ==
    /\ run'.pc = "check_quit"
    /\ run'.routed.prop = prop

\* C28: on the table page with the table in focus, a press of '/' gives the
\* focus to the filter box and returns Stop; with the filter box in focus, a
\* press of Esc or of Enter gives the focus back to the table and returns
\* Stop.  Neither changes the page, the store or anything else of the App
\* but the focus and the box's own mark of it.
C28_FilterFocusRoundTrip ==
    /\ [][(Routing("IssueTable", "IssueTable") /\ keypress(run.ev) = "/") =>
            (/\ Verdict("Stop")
             /\ app' = [app EXCEPT !.focus = "IssueTableFilter", !.filter_focused = TRUE]
             /\ store' = store
             /\ logFile' = logFile)]_vars
    /\ [][(Routing("IssueTable", "IssueTableFilter") /\ keypress(run.ev) \in {"Esc", "Enter"}) =>
            (/\ Verdict("Stop")
             /\ app' = [app EXCEPT !.focus = "IssueTable", !.filter_focused = FALSE]
             /\ store' = store
             /\ logFile' = logFile)]_vars

\* Esc was pressed in the filter box: the table has the focus again
C28_Witness ==
    /\ run.pc = "check_quit"
    /\ run.ev = [kind |-> "Key", code |-> "Esc", key_kind |-> "Press"]
    /\ run.routed = [page |-> "IssueTable", focus |-> "IssueTableFilter", prop |-> "Stop"]
    /\ app.page = "IssueTable"
    /\ app.focus = "IssueTable"
    /\ ~app.filter_focused

\* the widgets of each page, the first being the page's primary widget
PageWidgets(page) ==
    IF page = "IssueTable" THEN <<"IssueTable", "IssueTableFilter">> ELSE <<"IssueThread">>

\* the handler of this page is handed an event while the focus is on a
\* widget of another page: the focus goes to the page's primary widget,
\* Stop is returned, nothing else changes
FocusHealed(page) ==
    (run.pc = "handle" /\ app.page = page
        /\ \A i \in DOMAIN PageWidgets(page) : app.focus # PageWidgets(page)[i]) =>
       /\ Verdict("Stop")
       /\ app' = [app EXCEPT !.focus = PageWidgets(page)[1]]
       /\ store' = store
       /\ logFile' = logFile
       /\ run'.ev = run.ev

\* C29: a page handler that finds the focus on none of its page's widgets
\* sets the focus to the page's primary widget (the table on the table page,
\* the thread on the thread page) and returns Stop, whatever the event is;
\* the store, the log and the pending editor entry are as they were, and
\* the event is not looked at (a 'q' does not quit, an 'n' makes no entry).
C29_StrayFocusIsReset == [][\A page \in Pages : FocusHealed(page)]_vars

\* the table page was handed a press of 'n' while the thread had the focus:
\* the table has the focus now and no editor entry was made
C29_Witness ==
    /\ run.pc = "check_quit"
    /\ run.ev = [kind |-> "Key", code |-> "n", key_kind |-> "Press"]
    /\ run.routed = [page |-> "IssueTable", focus |-> "IssueThread", prop |-> "Stop"]
    /\ app.focus = "IssueTable"
    /\ app.entry = NoEntry

\* the record a status toggle of this issue writes
Toggled(id) ==
    StatusChanged(id, IF store.issues[id].status = StatusOpen THEN StatusClosed ELSE StatusOpen)

\* log and projection as the handler leaves them when it appended the toggle
\* of this issue
ToggleApplied(id) ==
    /\ logFile' = logFile \o to_string(Toggled(id)) \o <<NL>>
    /\ store' = apply_event(store, Toggled(id))
    /\ store'.issues[id].status = Toggled(id).status
    /\ store'.issues[id].status # store.issues[id].status

StatusToggle ==
    (Routing("IssueTable", "IssueTable") /\ keypress(run.ev) = "s") =>
       /\ app' = app
       /\ run'.routed.prop \in {"Stop", "none"}
       /\ (run'.routed.prop = "none") <=> (run'.pc \in {"unwinding", "panicked"})
       /\ IF app.selected = NoIndex
          THEN /\ Verdict("Stop")
               /\ store' = store
               /\ logFile' = logFile
          ELSE run'.routed.prop = "Stop" =>
                  /\ run'.pc = "check_quit"
                  /\ \E id \in DOMAIN store.issues : ToggleApplied(id)

\* C30: the status toggle has done its work when it returns.  With a row
\* selected, a Stop from the handler means that one StatusChanged record
\* with the inverse of the issue's status is in the log, newline and all,
\* and that the projection shows the new status; a toggle that could not do
\* so returns no verdict but an error.  With no row selected the handler
\* returns Stop and log and projection are as they were.
C30_ToggleDoneBeforeStop == [][StatusToggle]_vars

\* 's' was pressed on the selected row of an open issue and the handler
\* returned Stop: the issue is closed and the log is one record longer
C30_Witness ==
    /\ run.pc = "check_quit"
    /\ run.ev = [kind |-> "Key", code |-> "s", key_kind |-> "Press"]
    /\ run.routed = [page |-> "IssueTable", focus |-> "IssueTable", prop |-> "Stop"]
    /\ app.selected # NoIndex
    /\ U64Max \in DOMAIN store.issues
    /\ store.issues[U64Max].status = StatusClosed
    /\ logFile = LogText(<<InitIssue, StatusChanged(U64Max, StatusClosed)>>)

\* the display map gives, for the selected row, an id the store does not hold
StaleRow == [found |-> TRUE, id |-> UnknownId]

Drawing == run.pc \in {"draw", "hs_draw"}

\* C32 as stated: rendering only consumes the application state.  A step
\* that draws a frame leaves the whole App (page, focus, selection, pending
\* entry, columns), the store, the log and the event channel as they were;
\* page and focus change only while an event is routed.
C32_RenderingIsPure ==
    /\ [][Drawing => (app' = app /\ store' = store /\ logFile' = logFile /\ chan' = chan)]_vars
    /\ [][(app'.page # app.page \/ app'.focus # app.focus) => run.pc = "handle"]_vars

\* the continuation of the entry taken returned an Err
ContinuationFailed ==
    /\ run.cause = "continuation"
    /\ run.pc \in {"unwinding", "returned_err"}

\* where the handshake goes when the continuation has returned
AfterContinuation(res) ==
    IF res = "ok" THEN "nb_new" ELSE IF res = "err" THEN "unwinding" ELSE "panicked"

\* the step of the continuation is one of its results, and the handshake
\* goes on to the new backend only after an Ok: an Err is returned at once
ContinuationReturns ==
    (run.pc = "hs_callback") =>
       \E o \in callback(run.cb, app, store, logFile, run.resp) :
          /\ app' = o.app
          /\ store' = o.store
          /\ logFile' = o.file
          /\ run'.pc = AfterContinuation(o.res)
          /\ run'.cause = IF o.res = "ok" THEN run.cause ELSE "continuation"

\* C33: an Err of a pending entry's continuation is fatal for the iteration
\* of the main loop.  try_external_editor returns it right after the
\* continuation (no backend is made again, the terminal stays as the
\* teardown left it), App::run returns it, and the event that was waiting
\* is neither drawn nor routed: the only step left is the return of run,
\* which changes nothing of the App, the store or the log.
C33_ContinuationFailureIsFatal ==
    /\ [][ContinuationReturns]_vars
    /\ [](ContinuationFailed =>
            /\ run.hs = <<"take", "suspend", "editor", "continuation">>
            /\ run.tui = "none"
            /\ ~term.raw /\ ~term.alt
            /\ app.entry = NoEntry)
    /\ [][ContinuationFailed =>
            /\ run.pc = "unwinding"
            /\ run'.pc = "returned_err"
            /\ run'.cause = "continuation"
            /\ run'.ev = run.ev
            /\ app' = app /\ store' = store /\ logFile' = logFile]_vars

\* the text saved for a new issue did not parse: run has returned the error
\* of the continuation, the 'k' that was waiting was never routed
C33_Witness ==
    /\ run.pc = "returned_err"
    /\ run.cause = "continuation"
    /\ run.cb.kind = "new_issue"
    /\ run.ev.code = "k"
    /\ app.selected = NoIndex
    /\ logFile = <<>>

\* the record with its newline, as a successful append leaves it in the file
Line(event) == to_string(event) \o <<NL>>

\* what a failed write of this record may have left in the file
Torn(event) == { SubSeq(to_string(event), 1, k) : k \in 0..Len(to_string(event)) }

\* The continuation of a new issue was given the text of an issue, new_id
\* being the id the store gave: the step it takes is one of three.
TwoAppends(new_id) ==
    LET parsed == Issue_from_str(new_id, run.resp.text).val
        created == IssueCreated(parsed.issue)
        added == CommentAdded(parsed.comment)
        withIssue == apply_event(store, created)
    IN  \/ /\ run'.pc = "unwinding"
           /\ store' = store
           /\ \E t \in Torn(created) : logFile' = logFile \o t
        \/ /\ run'.pc = "unwinding"
           /\ store' = withIssue
           /\ new_id \in DOMAIN store'.issues
           /\ store'.comments = store.comments
           /\ \E t \in Torn(added) : logFile' = logFile \o Line(created) \o t
           /\ from_jsonl_file(logFile \o Line(created)) = LoadOk(withIssue)
        \/ /\ run'.pc = "nb_new"
           /\ store' = apply_event(withIssue, added)
           /\ logFile' = logFile \o Line(created) \o Line(added)

NewIssueSaved ==
    /\ run.pc = "hs_callback"
    /\ run.cb.kind = "new_issue"
    /\ run.resp.tag = "some"

\* C34: the continuation of a new issue appends twice, IssueCreated first
\* and CommentAdded second.  When the second append fails, the projection
\* holds the issue and no comment of it, and the log holds the line of the
\* issue followed by whatever the failed write left; the log as it is
\* between the two appends (where a stopped process leaves it) loads to
\* that same projection.  Nothing takes the first append back.
C34_IssueWithoutComment ==
    [][(NewIssueSaved /\ run'.pc # "panicked") =>
         \E n \in next_issue_id(store) :
            /\ n.ok
            /\ IF Issue_from_str(n.id, run.resp.text).ok
               THEN TwoAppends(n.id)
               ELSE run'.pc = "unwinding" /\ store' = store /\ logFile' = logFile]_vars

\* the comment of the first issue of an empty log could not be written: run
\* has returned the error, the issue is in the projection and in the log,
\* without a comment
C34_Witness ==
    /\ run.pc = "returned_err"
    /\ run.cause = "continuation"
    /\ run.cb.kind = "new_issue"
    /\ DOMAIN store.issues = {1}
    /\ store.comments = EmptyMap
    /\ logFile = Line(IssueCreated(store.issues[1]))

\* the focus is on one of the widgets of the page
FocusOnPage(a) == \E i \in DOMAIN PageWidgets(a.page) : a.focus = PageWidgets(a.page)[i]

\* C38: from the default state the focus is always on a widget of the active
\* page: the pair is (table, table), (table, filter) or (thread, thread).
\* The page changes only while an event is routed, and then the focus goes
\* to the primary widget of the new page in the same step; so no handler is
\* ever handed an event with the focus on another page's widget.
C38_PageAndFocusAgree ==
    /\ [](<<app.page, app.focus>> \in { <<"IssueTable", "IssueTable">>,
                                        <<"IssueTable", "IssueTableFilter">>,
                                        <<"IssueThread", "IssueThread">> })
    /\ [](run.pc = "handle" => FocusOnPage(app))
    /\ [][app'.page # app.page =>
            /\ run.pc = "handle"
            /\ app.focus = PageWidgets(app.page)[1]
            /\ app'.focus = PageWidgets(app'.page)[1]]_vars

\* a thread was opened from the table and the event now routed, on the
\* thread page, has gone back to the table page with the table in focus
C38_Witness ==
    /\ run.pc = "check_quit"
    /\ run.routed.page = "IssueThread"
    /\ run.routed.focus = "IssueThread"
    /\ app.page = "IssueTable"
    /\ app.focus = "IssueTable"

(***************************************************************************)
(* SpecColumns: the text the columns are edited as.  Init draws the list   *)
(* of columns of an IssueTableState; available_columns_for_editing makes   *)
(* the text the editor is given, columns_from_edited reads a text back.    *)
(* A text is a sequence of tokens: NL, SP, "#" and names.                  *)
(***************************************************************************)
\* Column::iter() without its last entry, Custom
KnownColumns == << Column("Id"), Column("Title"), Column("Created"), Column("Status"),
                  Column("Priority"), Column("CreatedBy") >>

\* impl Display for Column
Column_to_string(col) ==
    CASE col.name = "Id" -> <<"ID">>
      [] col.name = "Title" -> <<"Title">>
      [] col.name = "Created" -> <<"Created">>
      [] col.name = "Status" -> <<"Status">>
      [] col.name = "Priority" -> <<"Priority">>
      [] col.name = "CreatedBy" -> <<"Created By">>
      [] OTHER -> col.key

\* lines.join("\n")
RECURSIVE join(_)
join(ls) ==
    IF ls = <<>> THEN <<>>
    ELSE IF Len(ls) = 1 THEN ls[1]
    ELSE ls[1] \o <<NL>> \o join(Tail(ls))

Range(f) == { f[i] : i \in DOMAIN f }

\* the known columns that are not in the list, as comment lines, in enum order
RECURSIVE missing_lines(_, _)
missing_lines(known, present) ==
    IF known = <<>> THEN <<>>
    ELSE (IF Head(known) \in present THEN <<>>
          ELSE << <<"#", SP>> \o Column_to_string(Head(known)) >>)
         \o missing_lines(Tail(known), present)

\* Mutant: the columns that are missing are listed without the "# ".
available_columns_for_editing_NoComment(columns) ==
    join([i \in DOMAIN columns |-> Column_to_string(columns[i])]
         \o [i \in DOMAIN KnownColumns |-> Column_to_string(KnownColumns[i])])

\* IssueTableState::available_columns_for_editing
available_columns_for_editing(columns) ==
    join([i \in DOMAIN columns |-> Column_to_string(columns[i])]
         \o missing_lines(KnownColumns, Range(columns)))

\* IssueTableState::columns_from_edited on a text: input.trim().lines(),
\* then line by line
columns_from_edited_str(input) == columns_from_edited(lines(trim(input)))

\* The names of the Custom columns drawn: two plain names, one of them of
\* two words; names that Column::from_str reads as a known column; a name
\* with a space before it, an empty name, a name that begins with '#', a
\* name of two lines.
PlainKeys == { <<"foo">>, <<"foo", SP, "bar">> }
OtherKeys == { <<"id">>, <<"createdby">>, <<SP, "foo">>, <<>>, <<"#", "foo">>,
               <<"foo", NL, "bar">> }

ColumnPool ==
    Range(KnownColumns) \cup { Custom(k) : k \in PlainKeys \cup OtherKeys }

InitColumns ==
    /\ \E cols \in SeqsUpTo(ColumnPool, MaxCols) :
          tbl = [IssueTableState_default EXCEPT !.columns = cols]
    /\ box = InputBoxState_default
    /\ ed = ExternalEditor_default
    /\ sess = SessOff
    /\ ph = PanicHookOff
    /\ store = Issues_default
    /\ logFile = <<>>
    /\ ap = ApIdle
    /\ nAppends = 0
    /\ nFailed = 0
    /\ ld = LdOff
    /\ Tui_new
    /\ AppOff

\* the 'c' key: the text the editor is opened on
ColumnsToText ==
    /\ tbl.pc = "table"
    /\ tbl' = [tbl EXCEPT !.pc = "editor",
                          !.text = available_columns_for_editing(tbl.columns)]
    /\ UNCHANGED notTable

\* the text is saved as it is and read back
ColumnsFromText ==
    /\ tbl.pc = "editor"
    /\ tbl' = [tbl EXCEPT !.pc = "read", !.back = columns_from_edited_str(tbl.text)]
    /\ UNCHANGED notTable

NextColumns ==
    \/ ColumnsToText
    \/ ColumnsFromText

SpecColumns == InitColumns /\ [][NextColumns]_vars

\* a name of one line, trimmed, not empty, that does not begin with '#' and
\* is not read as the name of a known column
PlainKey(key) ==
    /\ key # <<>>
    /\ trim(key) = key
    /\ key[1] # "#"
    /\ \A i \in DOMAIN key : key[i] # NL
    /\ Column_from_str(key).name = "Custom"

PlainColumns(cols) ==
    \A i \in DOMAIN cols : cols[i].name = "Custom" => PlainKey(cols[i].key)

\* the known columns that are not in the list, in enum order
RECURSIVE Missing(_, _)
Missing(known, cols) ==
    IF known = <<>> THEN <<>>
    ELSE (IF \E i \in DOMAIN cols : cols[i] = Head(known) THEN <<>> ELSE <<Head(known)>>)
         \o Missing(Tail(known), cols)

\* the text lists the columns, then the known columns that are missing as
\* comments
ListsActiveThenMissing(cols, text) ==
    LET ls == lines(text)
        missing == Missing(KnownColumns, cols)
    IN  /\ Len(ls) = Len(cols) + Len(missing)
        /\ \A i \in DOMAIN cols : ls[i] = Column_to_string(cols[i])
        /\ \A j \in DOMAIN missing :
              ls[Len(cols) + j] = <<"#", SP>> \o Column_to_string(missing[j])

\* C35: the text of a column edit reads back as the columns it was made
\* from.  For a list of known columns and of Custom columns whose names are
\* of one line, trimmed, not empty, do not begin with '#' and are not read
\* as a known column's name (in any case of letters): the text has the
\* columns first, in their order, then every known column that is missing
\* as a "# " comment in enum order, and columns_from_edited of that text is
\* the list.
C35_ColumnTextRoundTrip ==
    PlainColumns(tbl.columns) =>
       /\ tbl.pc \in {"editor", "read"} => ListsActiveThenMissing(tbl.columns, tbl.text)
       /\ tbl.pc = "read" => tbl.back = tbl.columns

\* Created By and a custom column of two words, in that order, read back
C35_Witness ==
    /\ tbl.pc = "read"
    /\ tbl.columns = <<Column("CreatedBy"), Custom(<<"foo", SP, "bar">>)>>
    /\ tbl.back = tbl.columns
    /\ tbl.text = <<"Created By", NL, "foo", SP, "bar", NL, "#", SP, "ID", NL,
                    "#", SP, "Title", NL, "#", SP, "Created", NL, "#", SP, "Status", NL,
                    "#", SP, "Priority">>

(***************************************************************************)
(* SpecSort: the sort column of the issue table.  From the default table   *)
(* state the keys move the sort column, a column edit replaces the list    *)
(* of columns by what is read from the text the editor hands back, and a   *)
(* frame sorts the rows by the sort column.                                *)
(***************************************************************************)
\* columns.iter().position(|c| *c == sort_by), counted from 1; 0 is None
position(columns, col) ==
    IF \E i \in DOMAIN columns : columns[i] = col
    THEN CHOOSE i \in DOMAIN columns :
            /\ columns[i] = col
            /\ \A j \in 1..(i - 1) : columns[j] # col
    ELSE 0

\* IssueTableState::sort_next_column
sort_next_column(t) ==
    LET i == position(t.columns, t.sort_by) IN
    IF i = 0 THEN t
    ELSE [t EXCEPT !.sort_by = t.columns[(i % Len(t.columns)) + 1]]

\* IssueTableState::sort_previous_column
sort_previous_column(t) ==
    LET i == position(t.columns, t.sort_by) IN
    IF i = 0 THEN t
    ELSE [t EXCEPT !.sort_by = t.columns[((i + Len(t.columns) - 2) % Len(t.columns)) + 1]]

\* IssueTableState::set_columns
set_columns(t, columns) == [t EXCEPT !.columns = columns]

\* apply_issue_sort: the comparator runs when there are two rows or more,
\* and is todo!() for a Custom column
apply_issue_sort(rows, sort_col) ==
    IF rows >= 2 /\ sort_col.name = "Custom" THEN "panic" ELSE "ok"

\* The columns a saved text may list.
SortPool == Range(KnownColumns) \cup { Custom(<<"foo">>) }

InitSort ==
    /\ tbl = IssueTableState_default
    /\ box = InputBoxState_default
    /\ ed = ExternalEditor_default
    /\ sess = SessOff
    /\ ph = PanicHookOff
    /\ store = Issues_default
    /\ logFile = <<>>
    /\ ap = ApIdle
    /\ nAppends = 0
    /\ nFailed = 0
    /\ ld = LdOff
    /\ Tui_new
    /\ AppOff

\* Shift+L
SortNext ==
    /\ tbl.pc = "table"
    /\ tbl' = sort_next_column(tbl)
    /\ UNCHANGED notTable

\* Shift+H
SortPrevious ==
    /\ tbl.pc = "table"
    /\ tbl' = sort_previous_column(tbl)
    /\ UNCHANGED notTable

\* 'c', the editor, and the continuation: the text is rewritten to list any
\* columns and saved, and the columns read from it are set
EditColumns ==
    /\ tbl.pc = "table"
    /\ tbl.edits < MaxColEdits
    /\ \E cols \in SeqsUpTo(SortPool, MaxCols) :
          LET text == available_columns_for_editing(cols) IN
          tbl' = set_columns([tbl EXCEPT !.text = text, !.edits = @ + 1],
                             columns_from_edited_str(text))
    /\ UNCHANGED notTable

\* a frame of the table page: the rows are sorted by the sort column
SortDraw ==
    /\ tbl.pc = "table"
    /\ \E rows \in 0..MaxRows :
          tbl' = [tbl EXCEPT !.pc = IF apply_issue_sort(rows, tbl.sort_by) = "panic"
                                    THEN "panicked" ELSE @]
    /\ UNCHANGED notTable

NextSort ==
    \/ SortNext
    \/ SortPrevious
    \/ EditColumns
    \/ SortDraw

SpecSort == InitSort /\ [][NextSort]_vars

Distinct(columns) ==
    \A i, j \in DOMAIN columns : columns[i] = columns[j] => i = j

\* C39: the sort column is one of the displayed columns and is never a
\* Custom column; with the sort column at place i of the displayed columns,
\* sort_next_column moves it to place i + 1, or to the first place from the
\* last, sort_previous_column moves it to place i - 1, or to the last place
\* from the first, and with distinct columns each undoes the other.
C39_SortColumnIsDisplayed ==
    /\ [](tbl.pc = "table" =>
            /\ tbl.sort_by \in Range(tbl.columns)
            /\ tbl.sort_by.name # "Custom")
    /\ [](LET i == position(tbl.columns, tbl.sort_by)
              n == Len(tbl.columns)
          IN  i # 0 =>
                /\ sort_next_column(tbl).sort_by = tbl.columns[IF i = n THEN 1 ELSE i + 1]
                /\ sort_previous_column(tbl).sort_by = tbl.columns[IF i = 1 THEN n ELSE i - 1])
    /\ [](Distinct(tbl.columns) =>
            /\ sort_previous_column(sort_next_column(tbl)) = tbl
            /\ sort_next_column(sort_previous_column(tbl)) = tbl)

(***************************************************************************)
(* SpecBox: InputBoxState::handle_input on an input box that starts empty. *)
(* The text is a sequence of characters and the cursor a place in it,      *)
(* counted from 0 as the Rope counts characters.                           *)
(***************************************************************************)
\* the codes that are KeyCode::Char(_)
CharCodes == {"a", "b"}

BoxCodes == CharCodes \cup {"Backspace", "Left", "Right", "Enter"}

BoxEvents ==
    { [kind |-> k, code |-> "none", key_kind |-> "none"] : k \in {"Tick", "Render"} }
    \cup { [kind |-> "Key", code |-> c, key_kind |-> kk] :
             c \in BoxCodes, kk \in {"Press", "Release"} }

\* usize::saturating_sub(1)
saturating_sub1(n) == IF n = 0 THEN 0 ELSE n - 1

\* Rope::insert_char(char_idx, ch); it panics when char_idx is past the end
insert_char(text, char_idx, ch) ==
    SubSeq(text, 1, char_idx) \o <<ch>> \o SubSeq(text, char_idx + 1, Len(text))

\* Rope::remove(start..end); it panics when end is past the end
remove(text, start, end) ==
    SubSeq(text, 1, start) \o SubSeq(text, end + 1, Len(text))

\* Mutant: Right moves the cursor whatever the length of the text.
handle_input_RightUnchecked(b, ev) ==
    LET key == keypress(ev) IN
    CASE key \in CharCodes ->
           IF b.cursor > Len(b.text) THEN [b EXCEPT !.last = "panic", !.ev = ev]
           ELSE [text |-> insert_char(b.text, b.cursor, key), cursor |-> b.cursor + 1,
                 last |-> "Stop", ev |-> ev]
      [] key = "Backspace" ->
           IF Len(b.text) > 0
           THEN IF b.cursor > Len(b.text) THEN [b EXCEPT !.last = "panic", !.ev = ev]
                ELSE [text |-> remove(b.text, saturating_sub1(b.cursor), b.cursor),
                      cursor |-> saturating_sub1(b.cursor), last |-> "Stop", ev |-> ev]
           ELSE [b EXCEPT !.last = "Stop", !.ev = ev]
      [] key = "Left" ->
           [b EXCEPT !.cursor = saturating_sub1(b.cursor), !.last = "Stop", !.ev = ev]
      [] key = "Right" ->
           [b EXCEPT !.cursor = b.cursor + 1, !.last = "Stop", !.ev = ev]
      [] OTHER -> [b EXCEPT !.last = "Continue", !.ev = ev]

\* InputBoxState::handle_input
handle_input(b, ev) ==
    LET key == keypress(ev) IN
    CASE key \in CharCodes ->
           IF b.cursor > Len(b.text) THEN [b EXCEPT !.last = "panic", !.ev = ev]
           ELSE [text |-> insert_char(b.text, b.cursor, key), cursor |-> b.cursor + 1,
                 last |-> "Stop", ev |-> ev]
      [] key = "Backspace" ->
           IF Len(b.text) > 0
           THEN IF b.cursor > Len(b.text) THEN [b EXCEPT !.last = "panic", !.ev = ev]
                ELSE [text |-> remove(b.text, saturating_sub1(b.cursor), b.cursor),
                      cursor |-> saturating_sub1(b.cursor), last |-> "Stop", ev |-> ev]
           ELSE [b EXCEPT !.last = "Stop", !.ev = ev]
      [] key = "Left" ->
           [b EXCEPT !.cursor = saturating_sub1(b.cursor), !.last = "Stop", !.ev = ev]
      [] key = "Right" ->
           [b EXCEPT !.cursor = IF b.cursor < Len(b.text) THEN b.cursor + 1 ELSE @,
                     !.last = "Stop", !.ev = ev]
      [] OTHER -> [b EXCEPT !.last = "Continue", !.ev = ev]

InitBox ==
    /\ box = InputBoxState_default
    /\ tbl = IssueTableState_default
    /\ ed = ExternalEditor_default
    /\ sess = SessOff
    /\ ph = PanicHookOff
    /\ store = Issues_default
    /\ logFile = <<>>
    /\ ap = ApIdle
    /\ nAppends = 0
    /\ nFailed = 0
    /\ ld = LdOff
    /\ Tui_new
    /\ AppOff

\* one call of handle_input; a character is typed while the text is short
\* of the bound
HandleInput ==
    /\ box.last # "panic"
    /\ \E ev \in BoxEvents :
          /\ keypress(ev) \in CharCodes => Len(box.text) < MaxText
          /\ box' = handle_input(box, ev)
    /\ UNCHANGED notBox

NextBox == HandleInput

SpecBox == InitBox /\ [][NextBox]_vars

\* C40: the cursor is a place of the text, 0 <= cursor <= number of
\* characters, after any calls of handle_input.  Of a call, with `ev` the
\* event it was given: a press of a character key puts the character at the
\* cursor, with the text before and after the cursor as it was, moves the
\* cursor on by one and returns Stop; a press of Backspace with the cursor
\* at 0 leaves the text as it is; an event that is not a press of a
\* character, Backspace, Left or Right returns Continue and leaves text and
\* cursor as they were.
C40_CursorWithinText ==
    /\ [](0 <= box.cursor /\ box.cursor <= Len(box.text))
    /\ [](box.last # "panic")
    /\ [][keypress(box'.ev) \in CharCodes =>
            /\ Len(box'.text) = Len(box.text) + 1
            /\ box'.text[box.cursor + 1] = keypress(box'.ev)
            /\ \A i \in 1..box.cursor : box'.text[i] = box.text[i]
            /\ \A i \in (box.cursor + 1)..Len(box.text) : box'.text[i + 1] = box.text[i]
            /\ box'.cursor = box.cursor + 1
            /\ box'.last = "Stop"]_box
    /\ [][(keypress(box'.ev) = "Backspace" /\ box.cursor = 0) =>
            box'.text = box.text]_box
    /\ [][keypress(box'.ev) \notin CharCodes \cup {"Backspace", "Left", "Right"} =>
            /\ box'.last = "Continue"
            /\ box'.text = box.text
            /\ box'.cursor = box.cursor]_box

\* 'b' was typed between the two characters of "aa"
C40_Witness ==
    /\ box.text = <<"a", "b", "a">>
    /\ box.cursor = 2
    /\ box.ev = [kind |-> "Key", code |-> "b", key_kind |-> "Press"]
    /\ box.last = "Stop"

====
